---- MODULE Spec2Model ----
(***************************************************************************)
(* Multi-tenant federated log access of fixxit.ai-openwebui:               *)
(*   routers/logs.py        get_logs (federated query, merge, pagination)  *)
(*   utils/postgres_connection.py  PostgreSQLConnectionManager (pools)     *)
(*   routers/groups.py      configure / read back a tenant's database      *)
(*                                                                         *)
(* Three specifications share the variables:                               *)
(*   Spec      get_logs as one handler over the tenants' databases         *)
(*   SpecPool  interleavings of get_connection / close_pool at the awaits  *)
(*   SpecCfg   configure_group_database and get_group_database_config      *)
(***************************************************************************)
EXTENDS Integers, Sequences, FiniteSets, TLC

\* ------------------------------------------------------------------------
\* Bounds of the model
\* ------------------------------------------------------------------------
MaxLimit == 2
MaxOffset == 1
\* pools create_pool may open per tenant
MaxPools == 2

\* The uses counted per invitation
MaxUses == 3
\* requests in flight at once
NumTasks == 2
\* requests for one tenant whose queries run at once
NumClients == 6

\* ------------------------------------------------------------------------
\* Values
\* ------------------------------------------------------------------------
\* The group table, in the order Groups.get_groups returns it.
GroupOrder == <<"g1", "g2", "g3">>

GroupIds == {GroupOrder[i] : i \in 1..Len(GroupOrder)}

\* A group id that is still listed in a manager's managed_groups but whose
\* group no longer exists: Groups.get_group_by_id returns None for it.
DeletedGroup == "g9"

\* No group (None where a group id is expected)
NoGroup == "none"

\* group_id = None (no filter requested)
NoFilter == "none"

\* SQL NULL / Python None in a nullable column (problem_category)
NULL == 0

Min(a, b) == IF a < b THEN a ELSE b

Range(s) == {s[i] : i \in 1..Len(s)}

\* Position of a tenant id in the id order ("g1" < "g2" < "g3").
TenantIndex(g) == CHOOSE i \in 1..Len(GroupOrder) : GroupOrder[i] = g

\* ------------------------------------------------------------------------
\* State
\* ------------------------------------------------------------------------
VARIABLES
    groupData,         \* Groups table: per group, its data["database"] blob
    tenantRows,        \* per tenant database (host): the rows of its logs table
    connection_pools,  \* PostgreSQLConnectionManager._connection_pools
    poolCreated,       \* per tenant: how many pools create_pool has opened
    poolClosed,        \* per tenant: the pools that pool.close() has closed
    poolOut,           \* per pool: the connections currently checked out
    lastReturned,      \* per tenant: the pool the last completed
                       \* get_connection_pool call returned (since a close)
    poolConfig,        \* per pool: the connection config create_pool was given
    users,             \* Users table (with the Auths password of each user)
    group_members,     \* GroupMembers table: (user id, group id) pairs
    invitations,       \* Invitation table
    task,              \* the requests in flight, each at one of its awaits
    closing,           \* the close_pool call in flight, if any
    resp               \* the get_logs response being returned

registry ==
    <<connection_pools, poolCreated, poolClosed, poolOut, lastReturned, poolConfig>>

directory == <<users, group_members, invitations>>

vars == <<groupData, tenantRows, directory, registry, task, closing, resp>>

\* ------------------------------------------------------------------------
\* Tenant configuration (group.data)
\* ------------------------------------------------------------------------
\* The Fernet key of this process's vault (self._encryption_key), and the key
\* of another process: _get_or_create_encryption_key takes the key from the
\* environment or generates a new one at every start.
CurrentKey == "k1"

OtherKey == "k0"

\* A password string: the text an admin types, or the Fernet token of a text
\* under a key (a token is a string too; kind tells which string a value
\* stands for).
Plain(text) == [kind |-> "plain", text |-> text, key |-> "none"]

TokenOf(key, text) == [kind |-> "fernet", text |-> text, key |-> key]

FernetToken(text) == TokenOf(CurrentKey, text)

\* Faulty variant of the encryption: the token is made under another key
encrypt_password_OtherKey(password) ==
    IF password = Plain("") THEN Plain("") ELSE TokenOf(OtherKey, password.text)

\* postgres_connection.py, encrypt_password: the empty password stays empty
encrypt_password(password) ==
    IF password = Plain("") THEN Plain("") ELSE FernetToken(password.text)

\* postgres_connection.py, decrypt_password: the empty string stays empty, a
\* token of this key decrypts, any other string raises ValueError
decrypt_password(encrypted_password) ==
    IF encrypted_password = Plain("") THEN [ok |-> TRUE, value |-> Plain("")]
    ELSE IF encrypted_password.kind = "fernet" /\ encrypted_password.key = CurrentKey
         THEN [ok |-> TRUE, value |-> Plain(encrypted_password.text)]
         ELSE [ok |-> FALSE, value |-> Plain("")]

\* The password the seeded tenants are configured with
SeedPassword == Plain("pw0")

\* A connection config as create_connection_config builds it; the host names
\* the tenant database it points at.
ConnectionOf(host) ==
    [host |-> host, port |-> 5432, database |-> "postgres", user |-> "postgres",
     password |-> encrypt_password(SeedPassword), ssl |-> TRUE]

\* No connection dict ({} or an absent key)
NoConnection == [host |-> "none", port |-> 0, database |-> "none", user |-> "none",
                 password |-> Plain("none"), ssl |-> FALSE]

\* group.data without a "database" key
NoDatabase ==
    [database |-> FALSE, enabled |-> FALSE, has_connection |-> FALSE,
     connection |-> NoConnection]

DatabaseBlob(enabled, conn) ==
    [database |-> TRUE, enabled |-> enabled, has_connection |-> TRUE,
     connection |-> conn]

\* Results of get_group_database_connection
NoConfig == [kind |-> "none", connection |-> NoConnection]

KeyErrorConfig == [kind |-> "KeyError", connection |-> NoConnection]

get_group_database_connection(gd, group_id) ==
    IF group_id \notin GroupIds \/ ~gd[group_id].database THEN NoConfig
    ELSE IF ~gd[group_id].enabled THEN NoConfig
    ELSE IF ~gd[group_id].has_connection THEN KeyErrorConfig
    ELSE [kind |-> "config", connection |-> gd[group_id].connection]

\* ------------------------------------------------------------------------
\* Principals and the Groups collaborator
\* ------------------------------------------------------------------------
Roles == {"admin", "manager", "user"}

\* Members of each group (Groups.get_group_user_ids_by_id).
GroupMembers(g) ==
    CASE g = "g1" -> {"u1", "m1"}
      [] g = "g2" -> {"u2", "m0"}
      [] g = "g3" -> {"u1"}
      [] OTHER -> {}

\* The principals that issue requests: an admin, managers with managed_groups
\* unset, ["g1"], ["g2","g1"] and ["g9","g3"] (g9 deleted), and ordinary users
\* (one of them with a stale managed_groups list that its role does not use).
Principals ==
    { [id |-> "a1", role |-> "admin",   managed_groups |-> <<>>],
      [id |-> "m0", role |-> "manager", managed_groups |-> <<>>],
      [id |-> "m1", role |-> "manager", managed_groups |-> <<"g1">>],
      [id |-> "m2", role |-> "manager", managed_groups |-> <<"g2", "g1">>],
      [id |-> "m3", role |-> "manager", managed_groups |-> <<DeletedGroup, "g3">>],
      [id |-> "u1", role |-> "user",    managed_groups |-> <<"g2">>],
      [id |-> "u2", role |-> "user",    managed_groups |-> <<>>] }

\* Groups.get_group_by_id(gid) is not None
GroupExists(gid) == gid \in GroupIds

\* Groups.get_groups(filter={}) as a list of ids
AllGroups == GroupOrder

\* Groups.get_groups(filter={"member_id": uid}) as a list of ids
GroupsByMember(uid) == SelectSeq(GroupOrder, LAMBDA g : uid \in GroupMembers(g))

\* Faulty variant of the role rule: a manager is given every group
RoleGroups_ManagerSeesAll(user) ==
    IF user.role \in {"admin", "manager"} THEN AllGroups
    ELSE GroupsByMember(user.id)

\* get_logs lines 245-257: the groups of the principal, by role
RoleGroups(user) ==
    IF user.role = "admin" THEN AllGroups
    ELSE IF user.role = "manager"
         THEN IF user.managed_groups # <<>>
              THEN SelectSeq(user.managed_groups, GroupExists)
              ELSE <<>>
         ELSE GroupsByMember(user.id)

\* get_logs lines 245-261: role groups, narrowed by the optional group_id
UserGroups(user, group_id) ==
    IF group_id # NoFilter
    THEN SelectSeq(RoleGroups(user), LAMBDA g : g = group_id)
    ELSE RoleGroups(user)

\* ------------------------------------------------------------------------
\* The Users, GroupMembers and Invitation tables
\* ------------------------------------------------------------------------
UserIds == {"a1", "m1", "u1", "p1"}

\* A row of the Users table, with the password hash Auths keeps for it
UserRow(role, name, email, password, pending_group_id) ==
    [role |-> role, name |-> name, email |-> email, password |-> password,
     pending_group_id |-> pending_group_id]

\* Users.get_user_by_id returns None
NoUser == UserRow("none", "none", "none", "none", NoGroup)

\* An admin, a manager, an ordinary user and a user pending approval for g1
SeedUsers ==
    [id \in UserIds |->
        CASE id = "a1" -> UserRow("admin", "n", "a1@x", "h", NoGroup)
          [] id = "m1" -> UserRow("manager", "n", "m1@x", "h", NoGroup)
          [] id = "u1" -> UserRow("user", "n", "u1@x", "h", NoGroup)
          [] id = "p1" -> UserRow("pending", "n", "p1@x", "h", "g1")]

\* The GroupMembers rows of the seeded groups
SeedMembers == {m \in UserIds \X GroupIds : m[1] \in GroupMembers(m[2])}

InvitationIds == {"i1", "i2"}

\* An Optional[int] column: None, or a value
NoInt == [given |-> FALSE, value |-> 0]

SomeInt(n) == [given |-> TRUE, value |-> n]

\* A row of the Invitation table
InvitationRow(token, max_uses, current_uses, expires_at, status) ==
    [token |-> token, max_uses |-> max_uses, current_uses |-> current_uses,
     expires_at |-> expires_at, status |-> status]

\* No row with this id
NoInvitation == InvitationRow("none", NoInt, 0, NoInt, "none")

DirectoryInit ==
    /\ users = SeedUsers
    /\ group_members = SeedMembers
    /\ invitations = [i \in InvitationIds |-> NoInvitation]

\* ------------------------------------------------------------------------
\* The tenant's SQL: ORDER BY <sort_by> [DESC] LIMIT <limit> [OFFSET <offset>]
\* ------------------------------------------------------------------------
valid_sort_fields ==
    {"created_at", "updated_at", "insight_title", "problem_category", "user_name"}

\* lines 338-340: a sort_by outside the allow-list is replaced by created_at
ValidatedSortBy(sort_by) ==
    IF sort_by \notin valid_sort_fields THEN "created_at" ELSE sort_by

\* The column value of a row.  Rows carry the two columns the model sorts on.
Column(row, field) ==
    IF field = "problem_category" THEN row.problem_category ELSE row.created_at

\* PostgreSQL's order of two column values: NULL sorts as larger than every
\* non-null value (NULLS LAST ascending, NULLS FIRST descending).
DbLess(a, b) == IF a = NULL THEN FALSE ELSE IF b = NULL THEN TRUE ELSE a < b

\* x goes before y in the tenant's ORDER BY
DbBefore(x, y, field, desc) ==
    IF desc THEN DbLess(Column(y, field), Column(x, field))
    ELSE DbLess(Column(x, field), Column(y, field))

RECURSIVE DbInsert(_, _, _, _)
DbInsert(sorted, x, field, desc) ==
    IF sorted = <<>> THEN <<x>>
    ELSE IF DbBefore(x, Head(sorted), field, desc)
         THEN <<x>> \o sorted
         ELSE <<Head(sorted)>> \o DbInsert(Tail(sorted), x, field, desc)

\* ORDER BY: rows of equal value stay in table (id) order
RECURSIVE DbSort(_, _, _)
DbSort(rows, field, desc) ==
    IF rows = <<>> THEN <<>>
    ELSE DbInsert(DbSort(SubSeq(rows, 1, Len(rows) - 1), field, desc),
                  rows[Len(rows)], field, desc)

\* lines 342-357: what conn.fetch returns for one tenant
TenantPage(rows, sort_by, sort_desc, limit, offset) ==
    LET sorted == DbSort(rows, ValidatedSortBy(sort_by), sort_desc)
    IN  SubSeq(sorted, offset + 1, Min(offset + limit, Len(sorted)))

\* ------------------------------------------------------------------------
\* The connection registry, as get_logs uses it from one handler at a time
\* ------------------------------------------------------------------------
\* No pool cached for the tenant
NoPool == 0

\* Health of a tenant database during one request: "up", "down" (connect or
\* authentication fails) or "qfail" (the query raises on a live connection).
HealthKinds == {"up", "down", "qfail"}

\* Faulty variant of the cache write: the new pool is not stored
CachePool_NotStored(cache, g, pool) == cache

\* line 174: self._connection_pools[group_id] = pool
CachePool(cache, g, pool) == [cache EXCEPT ![g] = pool]

\* get_connection_pool lines 155-181, run to completion: the cached pool, or a
\* new pool that is cached, or None when decrypt_password or create_pool
\* raises (both are inside the try block).
GetPoolNow(cache, created, g, config, health) ==
    IF cache[g] # NoPool
    THEN [pool |-> cache[g], cache |-> cache, created |-> created]
    ELSE IF ~decrypt_password(config.password).ok \/ health = "down"
         THEN [pool |-> NoPool, cache |-> cache, created |-> created]
         ELSE [pool |-> created[g] + 1,
               cache |-> CachePool(cache, g, created[g] + 1),
               created |-> [created EXCEPT ![g] = created[g] + 1]]

\* line 173: asyncpg.create_pool(**conn_params) is given the configuration the
\* caller read from the group's data; the pools numbered above created[g] are
\* the ones a step opened
OpenedWith(config, created, created_after, gd) ==
    [g \in GroupIds |->
        [n \in DOMAIN config[g] |->
            IF created[g] < n /\ n <= created_after[g] THEN gd[g].connection
            ELSE config[g][n]]]

\* ------------------------------------------------------------------------
\* get_logs
\* ------------------------------------------------------------------------
\* format_log_entry lines 144-172: the row, tagged with the group it was
\* fetched for
format_log_entry(row, group_id) ==
    [id |-> row.id, created_at |-> row.created_at,
     problem_category |-> row.problem_category,
     origin |-> row.origin, source_group_id |-> group_id]

FormatAll(rows, group_id) ==
    [i \in 1..Len(rows) |-> format_log_entry(rows[i], group_id)]

\* One debug_info entry
Dbg(tag, group, n) == [tag |-> tag, group |-> group, n |-> n]

\* lines 371-373: what the handler of a failed tenant adds to debug_info
FailureDiagnostics(g) == <<>>

\* lines 272-373, one iteration of the loop over user_groups.  acc carries
\* all_logs, all_categories, debug_info, sort_by, the pool registry and
\* whether an exception escaped the loop.
FetchGroup(acc, g, req, health, gd, rows) ==
    LET cfg == get_group_database_connection(gd, g)
        d1  == Append(acc.debug_info, Dbg("processing", g, 0))
    IN
    IF acc.raised THEN acc
    ELSE IF cfg.kind = "KeyError"
         THEN [acc EXCEPT !.debug_info = d1, !.raised = TRUE]
    ELSE IF cfg.kind = "none"
         THEN [acc EXCEPT !.debug_info = Append(d1, Dbg("no_database", g, 0))]
    ELSE
    LET d2   == Append(d1, Dbg("querying", g, 0))
        host == cfg.connection.host
        got  == GetPoolNow(acc.cache, acc.created, g, cfg.connection, health[host])
    IN
    IF got.pool = NoPool \/ health[host] = "down"
    THEN \* get_connection raises ConnectionError, or pool.acquire() raises
         [acc EXCEPT !.debug_info = d2 \o FailureDiagnostics(g),
                     !.failed = @ \cup {g}]
    ELSE IF health[host] = "qfail"
    THEN \* conn.fetch raises inside the scoped block
         [acc EXCEPT !.debug_info = d2 \o FailureDiagnostics(g),
                     !.failed = @ \cup {g},
                     !.sort_by = ValidatedSortBy(acc.sort_by),
                     !.cache = got.cache, !.created = got.created]
    ELSE
    LET page == TenantPage(rows[host], acc.sort_by, req.sort_desc,
                           req.limit, req.offset)
    IN  [acc EXCEPT !.debug_info = Append(d2, Dbg("returned", g, Len(page))),
                    !.all_logs = @ \o FormatAll(page, g),
                    !.all_categories = @ \cup
                        ({page[i].problem_category : i \in 1..Len(page)} \ {NULL}),
                    !.sort_by = ValidatedSortBy(acc.sort_by),
                    !.cache = got.cache, !.created = got.created]

RECURSIVE FetchAll(_, _, _, _, _, _)
FetchAll(acc, groups, req, health, gd, rows) ==
    IF groups = <<>> THEN acc
    ELSE FetchAll(FetchGroup(acc, Head(groups), req, health, gd, rows),
                  Tail(groups), req, health, gd, rows)

\* getattr(x, sort_by, ""): the attribute of a LogResponse, "" when it has none
HasAttr(field) == field \in {"id", "created_at", "problem_category"}

SortKey(x, field) ==
    CASE field = "id" -> x.id
      [] field = "created_at" -> x.created_at
      [] field = "problem_category" -> x.problem_category
      [] OTHER -> NULL

\* list.sort compares keys with <; None < anything raises TypeError, and with
\* two or more elements every element takes part in a comparison.
PySortRaises(logs, field) ==
    /\ Len(logs) > 1
    /\ HasAttr(field)
    /\ \E i \in 1..Len(logs) : SortKey(logs[i], field) = NULL

\* x must go before y; equal keys keep their order (list.sort is stable, also
\* with reverse=True)
PyBefore(x, y, field, reverse) ==
    IF ~HasAttr(field) THEN FALSE
    ELSE IF reverse THEN SortKey(y, field) < SortKey(x, field)
    ELSE SortKey(x, field) < SortKey(y, field)

RECURSIVE PyInsert(_, _, _, _)
PyInsert(sorted, x, field, reverse) ==
    IF sorted = <<>> THEN <<x>>
    ELSE IF PyBefore(x, Head(sorted), field, reverse)
         THEN <<x>> \o sorted
         ELSE <<Head(sorted)>> \o PyInsert(Tail(sorted), x, field, reverse)

\* all_logs.sort(key=lambda x: getattr(x, sort_by, ""), reverse=reverse)
RECURSIVE PySort(_, _, _)
PySort(logs, field, reverse) ==
    IF logs = <<>> THEN <<>>
    ELSE PyInsert(PySort(SubSeq(logs, 1, Len(logs) - 1), field, reverse),
                  logs[Len(logs)], field, reverse)

\* lines 375-378: the combined list is re-sorted only when user_groups holds
\* more than one existing group
MergeSorted(all_logs, user_groups, sort_by, sort_desc) ==
    IF Len(SelectSeq(user_groups, GroupExists)) > 1
    THEN PySort(all_logs, sort_by, sort_desc)
    ELSE all_logs

MergeRaises(all_logs, user_groups, sort_by) ==
    /\ Len(SelectSeq(user_groups, GroupExists)) > 1
    /\ PySortRaises(all_logs, sort_by)

\* Faulty variant of the truncation: total counts the returned page
Paginate_TotalOfPage(all_logs, limit) ==
    [logs     |-> IF Len(all_logs) > limit THEN SubSeq(all_logs, 1, limit) ELSE all_logs,
     total    |-> Min(Len(all_logs), limit),
     has_more |-> Len(all_logs) > limit]

\* lines 380-388: the final truncation
Paginate(all_logs, limit) ==
    [logs     |-> IF Len(all_logs) > limit THEN SubSeq(all_logs, 1, limit) ELSE all_logs,
     total    |-> Len(all_logs),
     has_more |-> Len(all_logs) > limit]

\* lines 375-398: merge, truncate and build the envelope, or answer 500 when
\* an exception escaped
Envelope(req, acc, raised, page) ==
    [status     |-> IF raised THEN 500 ELSE 200,
     req        |-> req,
     failed     |-> acc.failed,
     logs       |-> IF raised THEN <<>> ELSE page.logs,
     total      |-> IF raised THEN 0 ELSE page.total,
     has_more   |-> IF raised THEN FALSE ELSE page.has_more,
     categories |-> IF raised THEN {} ELSE acc.all_categories,
     debug_info |-> IF raised THEN <<>> ELSE acc.debug_info,
     cache      |-> acc.cache,
     created    |-> acc.created]

MergeAndPaginate(req, user_groups, acc) ==
    Envelope(req, acc,
             acc.raised \/ MergeRaises(acc.all_logs, user_groups, acc.sort_by),
             Paginate(MergeSorted(acc.all_logs, user_groups, acc.sort_by,
                                  req.sort_desc), req.limit))

\* lines 259-266: the first debug_info entries
FirstDebugInfo(req, user_groups) ==
    (IF req.group_id # NoFilter THEN <<Dbg("filter", req.group_id, 0)>> ELSE <<>>)
    \o <<Dbg("groups", req.user.id, Len(user_groups))>>

FetchAndMerge(req, user_groups, health, gd, rows, cache, created) ==
    MergeAndPaginate(req, user_groups,
        FetchAll([all_logs |-> <<>>, all_categories |-> {},
                  debug_info |-> FirstDebugInfo(req, user_groups),
                  sort_by |-> req.sort_by, failed |-> {}, raised |-> FALSE,
                  cache |-> cache, created |-> created],
                 user_groups, req, health, gd, rows))

\* The whole handler (lines 243-398) as a function of the request, the state
\* of the Groups table, the tenants' tables, their health and the registry.
get_logs(req, health, gd, rows, cache, created) ==
    FetchAndMerge(req, UserGroups(req.user, req.group_id), health, gd, rows,
                  cache, created)

\* ------------------------------------------------------------------------
\* Specification Spec: federated queries over fixed tenant databases
\* ------------------------------------------------------------------------
\* The logs table of a tenant database: two rows with distinct sort values ...
DatasetA(host) ==
    << [id |-> 1, created_at |-> 1, problem_category |-> 1, origin |-> host],
       [id |-> 2, created_at |-> 2, problem_category |-> 2, origin |-> host] >>

\* ... or one row whose problem_category is NULL
DatasetB(host) ==
    << [id |-> 1, created_at |-> 2, problem_category |-> NULL, origin |-> host] >>

SortInputs == {"created_at", "problem_category", "id"}

\* Requests that vary the principal and the group filter
ScopeRequests ==
    { [user |-> u, group_id |-> f, limit |-> MaxLimit, offset |-> 0,
       sort_by |-> "created_at", sort_desc |-> TRUE] :
      u \in Principals, f \in GroupIds \cup {NoFilter} }

\* Requests that vary the sort and the pagination window
PageRequests ==
    { [user |-> u, group_id |-> NoFilter, limit |-> l, offset |-> o,
       sort_by |-> s, sort_desc |-> d] :
      u \in {p \in Principals : p.id \in {"a1", "m2"}},
      l \in 1..MaxLimit, o \in 0..MaxOffset, s \in SortInputs, d \in BOOLEAN }

Requests == ScopeRequests \cup PageRequests

NoRequest ==
    [user |-> [id |-> "none", role |-> "user", managed_groups |-> <<>>],
     group_id |-> NoFilter, limit |-> 1, offset |-> 0,
     sort_by |-> "created_at", sort_desc |-> TRUE]

NoResponse ==
    [status |-> 0, req |-> NoRequest, failed |-> {}, logs |-> <<>>, total |-> 0,
     has_more |-> FALSE, categories |-> {}, debug_info |-> <<>>]

Tasks == 1..NumTasks

PoolIds == 1..MaxPools

IdleTask ==
    [pc |-> "idle", todo |-> <<>>, pool |-> NoPool, prev |-> NoPool,
     new |-> FALSE, exit |-> "none"]

RegistryEmpty ==
    /\ connection_pools = [g \in GroupIds |-> NoPool]
    /\ poolCreated = [g \in GroupIds |-> 0]
    /\ poolClosed = [g \in GroupIds |-> {}]
    /\ poolOut = [g \in GroupIds |-> [n \in PoolIds |-> 0]]
    /\ lastReturned = [g \in GroupIds |-> NoPool]
    /\ poolConfig = [g \in GroupIds |-> [n \in PoolIds |-> NoConnection]]

NoTasks ==
    /\ task = [t \in Tasks |-> IdleTask]
    /\ closing = [group |-> NoGroup, pool |-> NoPool]

Init ==
    /\ groupData \in [GroupIds -> {NoDatabase} \cup
                        {DatabaseBlob(e, ConnectionOf(h)) : e \in BOOLEAN, h \in GroupIds}]
    /\ \A g \in GroupIds : groupData[g].database => groupData[g].connection.host = g
    /\ tenantRows \in [GroupIds -> UNION {{DatasetA(h), DatasetB(h)} : h \in GroupIds}]
    /\ \A h \in GroupIds : \A i \in 1..Len(tenantRows[h]) : tenantRows[h][i].origin = h
    /\ DirectoryInit
    /\ RegistryEmpty
    /\ NoTasks
    /\ resp = NoResponse

\* The handler's effect on the state
Serve(r) ==
    /\ resp' = [status |-> r.status, req |-> r.req, failed |-> r.failed,
                logs |-> r.logs, total |-> r.total, has_more |-> r.has_more,
                categories |-> r.categories, debug_info |-> r.debug_info]
    /\ connection_pools' = r.cache
    /\ poolCreated' = r.created
    /\ poolConfig' = OpenedWith(poolConfig, poolCreated, r.created, groupData)
    /\ lastReturned' = r.cache
    /\ UNCHANGED <<groupData, tenantRows, directory, poolClosed, poolOut, task, closing>>

\* A request is served: the handler runs to its return or its HTTPException.
GetLogs ==
    /\ resp = NoResponse
    /\ \E req \in Requests, health \in [GroupIds -> HealthKinds] :
           Serve(get_logs(req, health, groupData, tenantRows,
                          connection_pools, poolCreated))

\* The response has been sent; the next request can be served.
Return ==
    /\ resp # NoResponse
    /\ resp' = NoResponse
    /\ UNCHANGED <<groupData, tenantRows, directory, registry, task, closing>>

Next == GetLogs \/ Return

Spec == Init /\ [][Next]_vars

\* ------------------------------------------------------------------------
\* Properties of get_logs (specification Spec)
\* ------------------------------------------------------------------------
\* The tenant set a principal is authorized for, by role
AuthorizedTenants(user) ==
    IF user.role = "admin" THEN GroupIds
    ELSE IF user.role = "manager" THEN Range(user.managed_groups) \cap GroupIds
    ELSE {g \in GroupIds : user.id \in GroupMembers(g)}

\* The groups whose database answered the last request, in query order
IsContributing(g) ==
    /\ get_group_database_connection(groupData, g).kind = "config"
    /\ g \notin resp.failed

ContributingGroups ==
    SelectSeq(UserGroups(resp.req.user, resp.req.group_id), IsContributing)

\* What the database of group g holds
TableOf(g) == tenantRows[groupData[g].connection.host]

RECURSIVE SumPages(_)
SumPages(groups) ==
    IF groups = <<>> THEN 0
    ELSE Len(TenantPage(TableOf(Head(groups)), resp.req.sort_by,
                        resp.req.sort_desc, resp.req.limit, resp.req.offset))
         + SumPages(Tail(groups))

RECURSIVE AllRows(_)
AllRows(groups) ==
    IF groups = <<>> THEN <<>>
    ELSE FormatAll(TableOf(Head(groups)), Head(groups)) \o AllRows(Tail(groups))

\* C1: every record get_logs returns is tagged with, and was read from the
\* database of, a tenant in the principal's authorized set (all tenants for an
\* admin, the managed_groups list for a manager, the member groups for a
\* user), and with a group_id filter only that group.
C1_RecordsAuthorized ==
    \A i \in 1..Len(resp.logs) :
        /\ resp.logs[i].source_group_id \in AuthorizedTenants(resp.req.user)
        /\ resp.req.group_id # NoFilter
              => resp.logs[i].source_group_id = resp.req.group_id
        /\ resp.logs[i].origin
              = groupData[resp.logs[i].source_group_id].connection.host

\* A manager of ["g1"] is served records although g2 and g3 have enabled
\* databases too
C1_Witness ==
    /\ resp.status = 200
    /\ resp.req.user.id = "m1"
    /\ resp.req.group_id = NoFilter
    /\ Len(resp.logs) > 0
    /\ \A g \in GroupIds : groupData[g].database /\ groupData[g].enabled

\* C2: when exactly one of the resolved tenants fails, get_logs answers 200
\* with the rows of the healthy tenants (up to the limit).
C2_OneFailureIsolated ==
    (resp.status # 0 /\ Cardinality(resp.failed) = 1)
        => /\ resp.status = 200
           /\ resp.total = SumPages(ContributingGroups)
           /\ \A i \in 1..Len(resp.logs) :
                  resp.logs[i].source_group_id \notin resp.failed

\* C3: the envelope carries, for every tenant that failed, a diagnostic entry
\* naming the tenant and its error.
C3_FailureDiagnosed ==
    resp.status = 200 =>
        \A g \in resp.failed :
            \E i \in 1..Len(resp.debug_info) :
                /\ resp.debug_info[i].tag = "error"
                /\ resp.debug_info[i].group = g

\* The order C7 asks for: by the sort field in the requested direction, equal
\* keys by tenant id and then row id
C7_InOrder(x, y) ==
    LET f  == ValidatedSortBy(resp.req.sort_by)
        kx == Column(x, f)
        ky == Column(y, f)
    IN  \/ IF resp.req.sort_desc THEN DbLess(ky, kx) ELSE DbLess(kx, ky)
        \/ /\ kx = ky
           /\ \/ TenantIndex(x.source_group_id) < TenantIndex(y.source_group_id)
              \/ /\ x.source_group_id = y.source_group_id
                 /\ x.id <= y.id

\* C7: when more than one tenant contributes rows, the returned records are
\* ordered by the sort field in the requested direction, ties by tenant id and
\* then row id.
C7_MergeOrder ==
    (resp.status = 200
     /\ Cardinality({resp.logs[i].source_group_id : i \in 1..Len(resp.logs)}) > 1)
        => \A i, j \in 1..Len(resp.logs) :
               i < j => C7_InOrder(resp.logs[i], resp.logs[j])

\* C8: an answered request returns min(limit, total) records, total is the
\* number of rows fetched from all tenants, has_more is total > limit.
C8_Pagination ==
    resp.status = 200 =>
        /\ Len(resp.logs) = Min(resp.req.limit, resp.total)
        /\ resp.total = SumPages(ContributingGroups)
        /\ resp.has_more = (resp.total > resp.req.limit)

\* Three tenants contributed more rows than the limit
C8_Witness ==
    /\ resp.status = 200
    /\ Len(ContributingGroups) = 3
    /\ resp.total > resp.req.limit
    /\ resp.has_more
    /\ Len(resp.logs) = resp.req.limit

ColumnsOf(logs, field) == [i \in 1..Len(logs) |-> Column(logs[i], field)]

\* Positions [offset, offset + limit) of all rows of the contributing tenants
\* in the requested order
GlobalWindow ==
    LET f      == ValidatedSortBy(resp.req.sort_by)
        merged == DbSort(AllRows(ContributingGroups), f, resp.req.sort_desc)
    IN  SubSeq(merged, resp.req.offset + 1,
               Min(resp.req.offset + resp.req.limit, Len(merged)))

\* C9: the returned page is positions [offset, offset + limit) of the merged,
\* globally sorted set (compared by sort value).
C9_GlobalOffset ==
    (resp.status = 200 /\ Len(ContributingGroups) > 1)
        => ColumnsOf(resp.logs, ValidatedSortBy(resp.req.sort_by))
           = ColumnsOf(GlobalWindow, ValidatedSortBy(resp.req.sort_by))

\* ------------------------------------------------------------------------
\* Specification SpecPool: requests interleaving at their awaits
\* ------------------------------------------------------------------------
\* "max_size": 5 of create_pool
max_size == 5

\* The tenant lists of the requests in flight (user_groups, all configured)
QueryPlans == {<<"g1">>, <<"g2", "g1">>}

\* lines 155-156 and 158-173 up to the await: the handler turns to the tenants
\* in todo.  A cached pool is returned at once (and pool.acquire() awaited), a
\* missing one awaits create_pool; with no tenant left the request ends.
LookupPool(tk, todo, cache, last) ==
    IF todo = <<>>
    THEN [IdleTask EXCEPT !.exit = tk.exit]
    ELSE IF cache[Head(todo)] # NoPool
         THEN [pc |-> "acquire", todo |-> todo, pool |-> cache[Head(todo)],
               prev |-> last[Head(todo)], new |-> FALSE, exit |-> "none"]
         ELSE [pc |-> "create", todo |-> todo, pool |-> NoPool,
               prev |-> last[Head(todo)], new |-> FALSE, exit |-> "none"]

\* The pool a call that returns at once hands out becomes the last returned
LookupReturned(todo, cache, last) ==
    IF todo # <<>> /\ cache[Head(todo)] # NoPool
    THEN [last EXCEPT ![Head(todo)] = cache[Head(todo)]]
    ELSE last

\* The request goes on with the tenants in todo
Continue(t, todo) ==
    /\ task' = [task EXCEPT ![t] = LookupPool(task[t], todo, connection_pools,
                                              lastReturned)]
    /\ lastReturned' = LookupReturned(todo, connection_pools, lastReturned)

\* A request arrives and reaches its first await
Begin(t) ==
    /\ task[t].pc = "idle"
    /\ \E plan \in QueryPlans : Continue(t, plan)
    /\ UNCHANGED <<groupData, tenantRows, directory, connection_pools, poolCreated, poolConfig,
                   poolClosed, poolOut, closing, resp>>

\* lines 173-177: create_pool returns; the pool is cached and returned
CreateDone(t) ==
    /\ task[t].pc = "create"
    /\ poolCreated[Head(task[t].todo)] < MaxPools
    /\ LET g == Head(task[t].todo)
           n == poolCreated[g] + 1
       IN  /\ poolCreated' = [poolCreated EXCEPT ![g] = n]
           /\ poolConfig' = OpenedWith(poolConfig, poolCreated, poolCreated',
                                       groupData)
           /\ connection_pools' = CachePool(connection_pools, g, n)
           /\ lastReturned' = [lastReturned EXCEPT ![g] = n]
           /\ task' = [task EXCEPT ![t].pc = "acquire", ![t].pool = n,
                                   ![t].new = TRUE]
    /\ UNCHANGED <<groupData, tenantRows, directory, poolClosed, poolOut, closing, resp>>

\* lines 179-181 and 193-194: create_pool raises, get_connection_pool returns
\* None, get_connection raises ConnectionError, get_logs goes to the next tenant
CreateFailed(t) ==
    /\ task[t].pc = "create"
    /\ Continue(t, Tail(task[t].todo))
    /\ UNCHANGED <<groupData, tenantRows, directory, connection_pools, poolCreated, poolConfig,
                   poolClosed, poolOut, closing, resp>>

\* line 196: pool.acquire() hands out a connection when fewer than max_size
\* are checked out; until then the caller waits
AcquireDone(t) ==
    /\ task[t].pc = "acquire"
    /\ LET g == Head(task[t].todo)
           n == task[t].pool
       IN  /\ n \notin poolClosed[g]
           /\ closing # [group |-> g, pool |-> n]
           /\ poolOut[g][n] < max_size
           /\ poolOut' = [poolOut EXCEPT ![g][n] = @ + 1]
    /\ task' = [task EXCEPT ![t].pc = "body", ![t].prev = NoPool,
                            ![t].new = FALSE]
    /\ UNCHANGED <<groupData, tenantRows, directory, connection_pools, poolCreated, poolConfig,
                   poolClosed, lastReturned, closing, resp>>

\* line 196: pool.acquire() raises (the pool is closed, the database is gone)
AcquireFailed(t) ==
    /\ task[t].pc = "acquire"
    /\ Continue(t, Tail(task[t].todo))
    /\ UNCHANGED <<groupData, tenantRows, directory, connection_pools, poolCreated, poolConfig,
                   poolClosed, poolOut, closing, resp>>

\* The request is cancelled while it awaits create_pool or pool.acquire():
\* CancelledError passes every "except Exception" and ends the handler
CancelledWaiting(t) ==
    /\ task[t].pc \in {"create", "acquire"}
    /\ task' = [task EXCEPT ![t] = [IdleTask EXCEPT !.exit = "cancel"]]
    /\ UNCHANGED <<groupData, tenantRows, directory, registry, closing, resp>>

\* lines 197-199: the scoped block ends normally ("ok"), by an exception of
\* the query ("error") or by cancellation ("cancel"); the finally clause
\* awaits pool.release(conn)
BodyDone(t) ==
    /\ task[t].pc = "body"
    /\ \E exit \in {"ok", "error", "cancel"} :
           task' = [task EXCEPT ![t].pc = "release", ![t].exit = exit]
    /\ UNCHANGED <<groupData, tenantRows, directory, registry, closing, resp>>

\* Faulty variant of the release: only a normal exit releases
ReleaseOnExit_NormalOnly(out, exit) == IF exit = "ok" THEN out - 1 ELSE out

\* line 200: the connections checked out of the pool once pool.release(conn)
\* has run at an exit of the block
ReleaseOnExit(out, exit) == out - 1

\* line 200 returns: after a cancellation the handler ends, after an exception
\* or a normal exit get_logs goes to the next tenant
ReleaseDone(t) ==
    /\ task[t].pc = "release"
    /\ LET g == Head(task[t].todo)
           n == task[t].pool
       IN  poolOut' = [poolOut EXCEPT ![g][n] = ReleaseOnExit(@, task[t].exit)]
    /\ IF task[t].exit = "cancel"
       THEN /\ task' = [task EXCEPT ![t] = [IdleTask EXCEPT !.exit = "cancel"]]
            /\ UNCHANGED lastReturned
       ELSE Continue(t, Tail(task[t].todo))
    /\ UNCHANGED <<groupData, tenantRows, directory, connection_pools, poolCreated, poolConfig,
                   poolClosed, closing, resp>>

\* lines 204-205: close_pool finds the pool and awaits pool.close()
CloseBegin ==
    /\ closing.group = NoGroup
    /\ \E g \in GroupIds :
           /\ connection_pools[g] # NoPool
           /\ closing' = [group |-> g, pool |-> connection_pools[g]]
           /\ lastReturned' = [lastReturned EXCEPT ![g] = NoPool]
    /\ UNCHANGED <<groupData, tenantRows, directory, connection_pools, poolCreated, poolConfig,
                   poolClosed, poolOut, task, resp>>

\* lines 205-206: pool.close() returns once every connection is released;
\* the tenant's entry is deleted from the cache
CloseEnd ==
    /\ closing.group # NoGroup
    /\ poolOut[closing.group][closing.pool] = 0
    /\ poolClosed' = [poolClosed EXCEPT ![closing.group] = @ \cup {closing.pool}]
    /\ connection_pools' = [connection_pools EXCEPT ![closing.group] = NoPool]
    /\ lastReturned' = [lastReturned EXCEPT ![closing.group] = NoPool]
    /\ closing' = [group |-> NoGroup, pool |-> NoPool]
    /\ UNCHANGED <<groupData, tenantRows, directory, poolCreated, poolConfig, poolOut, task, resp>>

InitPool ==
    /\ groupData = [g \in GroupIds |-> DatabaseBlob(TRUE, ConnectionOf(g))]
    /\ tenantRows = [g \in GroupIds |-> DatasetA(g)]
    /\ DirectoryInit
    /\ RegistryEmpty
    /\ NoTasks
    /\ resp = NoResponse

NextPool ==
    \/ \E t \in Tasks :
           \/ Begin(t)
           \/ CreateDone(t)
           \/ CreateFailed(t)
           \/ AcquireDone(t)
           \/ AcquireFailed(t)
           \/ CancelledWaiting(t)
           \/ BodyDone(t)
           \/ ReleaseDone(t)
    \/ CloseBegin
    \/ CloseEnd

SpecPool == InitPool /\ [][NextPool]_vars

\* The pools of a tenant that are open
OpenPools(g) == (1..poolCreated[g]) \ poolClosed[g]

\* C4: under any interleaving of get_connection_pool calls a tenant has at
\* most one open pool, and every open pool is the one in the cache.
C4_OnePoolPerTenant ==
    \A g \in GroupIds :
        /\ Cardinality(OpenPools(g)) <= 1
        /\ \A n \in OpenPools(g) : connection_pools[g] = n

\* C5: a get_connection_pool call that follows a completed call for the same
\* tenant, with no close in between, returns the pool that call returned and
\* opens no pool: the last returned pool is the cached one, and a call that
\* started after it returned has that pool and created nothing.  (Pools of
\* different tenants are different objects: a pool is named by its tenant and
\* its creation number.)
C5_SamePoolAgain ==
    /\ \A g \in GroupIds :
           lastReturned[g] # NoPool => connection_pools[g] = lastReturned[g]
    /\ \A t \in Tasks :
           (task[t].pc = "acquire" /\ task[t].prev # NoPool)
               => task[t].pool = task[t].prev /\ ~task[t].new

\* A second call got the pool of the first while the first still uses it
C5_Witness ==
    \E t, u \in Tasks :
        /\ t # u
        /\ task[t].pc = "body"
        /\ task[u].pc = "acquire" /\ task[u].prev # NoPool
        /\ Head(task[u].todo) = Head(task[t].todo)
        /\ task[u].pool = task[t].pool

\* The requests inside their scoped block on pool n of tenant g
Holders(g, n) ==
    {t \in Tasks : /\ task[t].pc \in {"body", "release"}
                   /\ Head(task[t].todo) = g
                   /\ task[t].pool = n}

\* C6: every checked-out connection belongs to a request that is inside its
\* scoped block, so a request that has ended (normally, by an exception or by
\* cancellation) has left no connection checked out.
C6_ConnectionsReleased ==
    \A g \in GroupIds : \A n \in PoolIds :
        poolOut[g][n] = Cardinality(Holders(g, n))

\* Requests ended by cancellation and by an exception, nothing checked out
C6_Witness ==
    /\ \A t \in Tasks : task[t].pc = "idle"
    /\ \E t, u \in Tasks : task[t].exit = "cancel" /\ task[u].exit = "error"
    /\ \E g \in GroupIds : poolCreated[g] > 0
    /\ \A g \in GroupIds : \A n \in PoolIds : poolOut[g][n] = 0

\* ------------------------------------------------------------------------
\* Specification SpecCfg: configuring a tenant's database and reading it back
\* ------------------------------------------------------------------------
\* Connection strings, as their whitespace-separated tokens
ConnectionStrings ==
    {<<"psql", "-h", "g1", "-p", "5432", "-d", "postgres", "-U", "postgres">>,
     <<"psql", "-h", "g2", "-p", "6543", "-d", "postgres", "-U", "postgres">>,
     <<"/usr/bin/psql", "-h", "g1", "-p", "5432", "-d", "postgres", "-U", "app",
       "-W">>,
     <<"psql", "-h", "g1", "-p", "54a2", "-d", "postgres", "-U", "postgres">>,
     <<"psql", "-U", "postgres", "-h", "g1", "-p", "5432", "-d", "postgres">>,
     <<"psql", "-h", "g1">>}

\* The tokens (\d+)\s matches
IsDigits(tok) == tok \in {"5432", "6543", "0"}

\* int() of a token of digits
PortValue(tok) ==
    CASE tok = "5432" -> 5432
      [] tok = "6543" -> 6543
      [] OTHER -> 0

\* The tokens that end in "psql" (re.search may start inside a token)
EndsInPsql(tok) == tok \in {"psql", "/usr/bin/psql"}

\* The pattern psql\s+-h\s+(\S+)\s+-p\s+(\d+)\s+-d\s+(\S+)\s+-U\s+(\S+)
\* matches the tokens from position i on
MatchesAt(toks, i) ==
    /\ i + 8 <= Len(toks)
    /\ EndsInPsql(toks[i])
    /\ toks[i + 1] = "-h"
    /\ toks[i + 3] = "-p"
    /\ IsDigits(toks[i + 4])
    /\ toks[i + 5] = "-d"
    /\ toks[i + 7] = "-U"

\* postgres_connection.py, parse_psql_connection_string: the first match, or
\* ValueError
parse_psql_connection_string(toks) ==
    IF \E i \in 1..Len(toks) : MatchesAt(toks, i)
    THEN LET i == CHOOSE k \in 1..Len(toks) :
                      /\ MatchesAt(toks, k)
                      /\ \A j \in 1..(k - 1) : ~MatchesAt(toks, j)
         IN  [ok |-> TRUE, host |-> toks[i + 2], port |-> PortValue(toks[i + 4]),
              database |-> toks[i + 6], user |-> toks[i + 8]]
    ELSE [ok |-> FALSE, host |-> "none", port |-> 0, database |-> "none",
          user |-> "none"]

\* postgres_connection.py, create_connection_config
create_connection_config(connection_string, password) ==
    LET config == parse_psql_connection_string(connection_string)
    IN  IF ~config.ok THEN [ok |-> FALSE, config |-> NoConnection]
        ELSE [ok |-> TRUE,
              config |-> [host |-> config.host, port |-> config.port,
                          database |-> config.database, user |-> config.user,
                          password |-> encrypt_password(password),
                          ssl |-> TRUE]]

\* postgres_connection.py, test_connection: False when the password does not
\* decrypt or the server (reachable or not) refuses
test_connection(config, reachable) ==
    decrypt_password(config.password).ok /\ reachable

\* The passwords an admin may submit
Passwords == {Plain(""), Plain("pw1")}

\* "***encrypted***"
Placeholder == Plain("***encrypted***")

\* Faulty variant of the read-back: the stored connection is returned as it is
SafeConnection_Stored(connection) == connection

\* groups.py lines 368-370: the copy of the stored connection that is returned
SafeConnection(connection) == [connection EXCEPT !.password = Placeholder]

\* A response of the configuration endpoints; tested records that the handler
\* ran test_connection and it returned True (connection_test)
CfgResponse(api, id, status, enabled, has_password, connection) ==
    [api |-> api, id |-> id, status |-> status, enabled |-> enabled,
     has_password |-> has_password, connection |-> connection,
     tested |-> FALSE]

\* Faulty variant of the handler: the configuration is written before the
\* connection is tested
configure_group_database_SavesFirst(gd, id, connection_string, password, enabled, reachable, saved) ==
    LET cc == create_connection_config(connection_string, password)
        stored == [gd EXCEPT ![id] = DatabaseBlob(enabled, cc.config)]
        refused(data, status) ==
            [gd |-> data,
             resp |-> CfgResponse("configure_group_database", id, status, FALSE,
                                  FALSE, NoConnection)]
    IN  IF id \notin GroupIds THEN refused(gd, 404)
        ELSE IF ~cc.ok THEN refused(gd, 400)
        ELSE IF ~saved THEN refused(gd, 400)
        ELSE IF enabled /\ ~test_connection(cc.config, reachable)
             THEN refused(stored, 400)
        ELSE [gd |-> stored,
              resp |-> [CfgResponse("configure_group_database", id, 200, enabled,
                                    TRUE, cc.config) EXCEPT !.tested = enabled]]

\* groups.py, configure_group_database, as its result: the response and the
\* group's data afterwards.  saved is whether Groups.update_group_by_id
\* returned the updated group.
configure_group_database(gd, id, connection_string, password, enabled, reachable, saved) ==
    LET cc == create_connection_config(connection_string, password)
        refused(status) ==
            [gd |-> gd,
             resp |-> CfgResponse("configure_group_database", id, status, FALSE,
                                  FALSE, NoConnection)]
    IN  IF id \notin GroupIds THEN refused(404)
        ELSE IF ~cc.ok THEN refused(400)
        ELSE IF enabled /\ ~test_connection(cc.config, reachable) THEN refused(400)
        ELSE IF ~saved THEN refused(400)
        ELSE [gd |-> [gd EXCEPT ![id] = DatabaseBlob(enabled, cc.config)],
              resp |-> [CfgResponse("configure_group_database", id, 200, enabled,
                                    TRUE, cc.config) EXCEPT !.tested = enabled]]

\* groups.py, get_group_database_config
get_group_database_config(gd, id) ==
    IF id \notin GroupIds
    THEN CfgResponse("get_group_database_config", id, 404, FALSE, FALSE,
                     NoConnection)
    ELSE IF ~gd[id].database
    THEN CfgResponse("get_group_database_config", id, 200, FALSE, FALSE,
                     NoConnection)
    ELSE IF ~gd[id].has_connection
    THEN CfgResponse("get_group_database_config", id, 500, FALSE, FALSE,
                     NoConnection)
    ELSE CfgResponse("get_group_database_config", id, 200, gd[id].enabled, TRUE,
                     SafeConnection(gd[id].connection))

\* groups.py, get_group_by_id: the group with its data as stored
get_group_by_id(gd, id) ==
    IF id \notin GroupIds
    THEN CfgResponse("get_group_by_id", id, 401, FALSE, FALSE, NoConnection)
    ELSE IF ~gd[id].database
    THEN CfgResponse("get_group_by_id", id, 200, FALSE, FALSE, NoConnection)
    ELSE CfgResponse("get_group_by_id", id, 200, gd[id].enabled,
                     gd[id].has_connection, gd[id].connection)

ConfigureGroupDatabase ==
    /\ resp = NoResponse
    /\ \E id \in GroupIds \cup {DeletedGroup}, cs \in ConnectionStrings,
          pw \in Passwords, enabled \in BOOLEAN, reachable \in BOOLEAN,
          saved \in BOOLEAN :
           LET r == configure_group_database(groupData, id, cs, pw, enabled,
                                             reachable, saved)
           IN  /\ groupData' = r.gd
               /\ resp' = r.resp
    /\ UNCHANGED <<tenantRows, directory, registry, task, closing>>

GetGroupDatabaseConfig ==
    /\ resp = NoResponse
    /\ \E id \in GroupIds \cup {DeletedGroup} :
           resp' = get_group_database_config(groupData, id)
    /\ UNCHANGED <<groupData, tenantRows, directory, registry, task, closing>>

GetGroupById ==
    /\ resp = NoResponse
    /\ \E id \in GroupIds \cup {DeletedGroup} :
           resp' = get_group_by_id(groupData, id)
    /\ UNCHANGED <<groupData, tenantRows, directory, registry, task, closing>>

InitCfg ==
    /\ groupData = [g \in GroupIds |-> NoDatabase]
    /\ tenantRows = [g \in GroupIds |-> DatasetA(g)]
    /\ DirectoryInit
    /\ RegistryEmpty
    /\ NoTasks
    /\ resp = NoResponse

NextCfg ==
    \/ ConfigureGroupDatabase
    \/ GetGroupDatabaseConfig
    \/ GetGroupById
    \/ Return

SpecCfg == InitCfg /\ [][NextCfg]_vars

ReadApis == {"get_group_database_config", "get_group_by_id"}

\* C10: a successful read never carries the password a tenant's stored
\* configuration decrypts to, and get_group_database_config of a group with
\* a stored configuration returns the fixed placeholder as the password.
C10_PasswordRedacted ==
    (resp # NoResponse /\ resp.status = 200 /\ resp.api \in ReadApis) =>
        /\ \A g \in GroupIds :
               (groupData[g].database /\ groupData[g].connection.password # Plain(""))
                   => resp.connection.password #
                          decrypt_password(groupData[g].connection.password).value
        /\ (resp.api = "get_group_database_config" /\ resp.has_password)
               => resp.connection.password = Placeholder

\* A configured password is read back through get_group_database_config
C10_Witness ==
    /\ resp # NoResponse
    /\ resp.api = "get_group_database_config"
    /\ resp.status = 200
    /\ resp.has_password
    /\ groupData[resp.id].connection.password = FernetToken("pw1")
    /\ resp.connection.host = "g1"

\* ------------------------------------------------------------------------
\* Specification SpecVault: the vault's two functions on stored passwords
\* ------------------------------------------------------------------------
\* The passwords given to encrypt_password
Plaintexts == {Plain(""), Plain("pw1"), Plain("pw2")}

\* The password strings found in stored configurations: tokens of this key,
\* tokens of another process's key, and text that is no token
StoredStrings == {FernetToken("pw0"), TokenOf(OtherKey, "pw0"), Plain("garbage")}

NoOutcome == [ok |-> FALSE, value |-> Plain("none")]

\* One call of the vault: what was encrypted, the string, what it decrypts to
VaultCall(op, id, plain, token, out) ==
    [op |-> op, id |-> id, plain |-> plain, token |-> token, out |-> out]

\* encrypt_password is called
EncryptPassword ==
    /\ resp = NoResponse
    /\ \E p \in Plaintexts :
           resp' = VaultCall("encrypt", "none", p, encrypt_password(p), NoOutcome)
    /\ UNCHANGED <<groupData, tenantRows, directory, registry, task, closing>>

\* decrypt_password is called with the string encrypt_password returned
DecryptPassword ==
    /\ resp # NoResponse
    /\ resp.op = "encrypt"
    /\ resp' = VaultCall("decrypt", "none", resp.plain, resp.token,
                         decrypt_password(resp.token))
    /\ UNCHANGED <<groupData, tenantRows, directory, registry, task, closing>>

\* create_connection_config puts the encrypted string into a configuration,
\* which configure_group_database stores
StorePassword ==
    /\ resp # NoResponse
    /\ resp.op = "encrypt"
    /\ \E g \in GroupIds :
           /\ groupData' = [groupData EXCEPT ![g].connection.password = resp.token]
           /\ resp' = VaultCall("store", g, resp.plain, resp.token, NoOutcome)
    /\ UNCHANGED <<tenantRows, directory, registry, task, closing>>

\* decrypt_password is called with a stored string (test_connection line 128,
\* get_connection_pool line 164)
DecryptStored ==
    /\ resp = NoResponse
    /\ \E g \in GroupIds :
           resp' = VaultCall("decrypt_stored", g, Plain("none"),
                             groupData[g].connection.password,
                             decrypt_password(groupData[g].connection.password))
    /\ UNCHANGED <<groupData, tenantRows, directory, registry, task, closing>>

InitVault ==
    /\ groupData \in
           [GroupIds -> {DatabaseBlob(TRUE, [ConnectionOf(g) EXCEPT !.password = s]) :
                             g \in GroupIds, s \in StoredStrings}]
    /\ \A g \in GroupIds : groupData[g].connection.host = g
    /\ tenantRows = [g \in GroupIds |-> DatasetA(g)]
    /\ DirectoryInit
    /\ RegistryEmpty
    /\ NoTasks
    /\ resp = NoResponse

NextVault ==
    \/ EncryptPassword
    \/ DecryptPassword
    \/ StorePassword
    \/ DecryptStored
    \/ Return

SpecVault == InitVault /\ [][NextVault]_vars

BlobWithoutConnection ==
    [database |-> TRUE, enabled |-> TRUE, has_connection |-> FALSE,
     connection |-> NoConnection]

\* A configuration whose password was encrypted by another process's key
ForeignKeyConnection(host) ==
    [ConnectionOf(host) EXCEPT !.password = TokenOf(OtherKey, SeedPassword.text)]

\* What a group's data may hold
EdgeBlobs(g) ==
    {NoDatabase, BlobWithoutConnection,
     DatabaseBlob(FALSE, ConnectionOf(g)), DatabaseBlob(TRUE, ConnectionOf(g)),
     DatabaseBlob(TRUE, ForeignKeyConnection(g))}

InitEdge ==
    /\ groupData \in [GroupIds -> UNION {EdgeBlobs(g) : g \in GroupIds}]
    /\ \A g \in GroupIds : groupData[g] \in EdgeBlobs(g)
    /\ tenantRows = [g \in GroupIds |-> DatasetA(g)]
    /\ DirectoryInit
    /\ RegistryEmpty
    /\ NoTasks
    /\ resp = NoResponse

SpecEdge == InitEdge /\ [][Next]_vars

\* The tenants of the answered request whose stored password does not decrypt
UndecryptableTenants ==
    {g \in Range(UserGroups(resp.req.user, resp.req.group_id)) :
        /\ get_group_database_connection(groupData, g).kind = "config"
        /\ ~decrypt_password(groupData[g].connection.password).ok}

\* C12: a federated query that needed a password which does not decrypt
\* answers with an internal error instead of leaving the tenant out.
C12_DecryptFailureSurfaced ==
    (resp.status # 0 /\ UndecryptableTenants # {}) => resp.status = 500

\* ------------------------------------------------------------------------
\* Specification SpecParse: parse_psql_connection_string on descriptors
\* ------------------------------------------------------------------------
Flags == {"-h", "-p", "-d", "-U"}

\* The port texts tried: two positive integers, zero, and one with a letter
PortTexts == {"5432", "0", "54a2"}

\* The value a descriptor gives with a flag
FlagValue(flag, port) ==
    CASE flag = "-h" -> "g1"
      [] flag = "-p" -> port
      [] flag = "-d" -> "logsdb"
      [] flag = "-U" -> "app"

\* The four flags in every order, and the expected order less one flag
FlagOrders ==
    {f \in [1..4 -> Flags] : Range(f) = Flags}
    \cup {SelectSeq(<<"-h", "-p", "-d", "-U">>, LAMBDA x : x # y) : y \in Flags}

\* A descriptor: text before the command, the flags in their order, the port
\* text, text after the last value
Descriptors ==
    [prefix : {<<>>, <<"sudo">>}, flags : FlagOrders, port : PortTexts,
     suffix : {<<>>, <<"-W">>}]

RECURSIVE FlagTokens(_, _)
FlagTokens(flags, port) ==
    IF flags = <<>> THEN <<>>
    ELSE <<Head(flags), FlagValue(Head(flags), port)>>
         \o FlagTokens(Tail(flags), port)

\* The descriptor's text, as its whitespace-separated tokens
TokensOf(desc) ==
    desc.prefix \o <<"psql">> \o FlagTokens(desc.flags, desc.port) \o desc.suffix

\* A call of the parser
ParseCall(op, desc, result) == [op |-> op, desc |-> desc, result |-> result]

NoParse == [ok |-> FALSE, host |-> "none", port |-> 0, database |-> "none",
            user |-> "none"]

\* A descriptor arrives
ReceiveDescriptor ==
    /\ resp = NoResponse
    /\ \E desc \in Descriptors : resp' = ParseCall("received", desc, NoParse)
    /\ UNCHANGED <<groupData, tenantRows, directory, registry, task, closing>>

\* parse_psql_connection_string returns or raises ValueError
ParseDescriptor ==
    /\ resp # NoResponse
    /\ resp.op = "received"
    /\ resp' = ParseCall("parsed", resp.desc,
                         parse_psql_connection_string(TokensOf(resp.desc)))
    /\ UNCHANGED <<groupData, tenantRows, directory, registry, task, closing>>

NextParse ==
    \/ ReceiveDescriptor
    \/ ParseDescriptor
    \/ Return

SpecParse == InitCfg /\ [][NextParse]_vars

\* A port text that is a positive integer
IsPositiveInteger(tok) == tok \in {"5432", "6543"}

\* What the descriptor says, flag by flag
Described(desc) ==
    [ok |-> TRUE, host |-> FlagValue("-h", desc.port),
     port |-> PortValue(desc.port), database |-> FlagValue("-d", desc.port),
     user |-> FlagValue("-U", desc.port)]

\* C13: a descriptor of the expected shape parses to exactly its four fields;
\* one with a field missing, a port that is no positive integer, or text
\* around the command raises the format error.
C13_ParserStrict ==
    (resp # NoResponse /\ resp.op = "parsed") =>
        LET desc == resp.desc
            shaped == /\ desc.flags = <<"-h", "-p", "-d", "-U">>
                      /\ IsPositiveInteger(desc.port)
                      /\ desc.prefix = <<>> /\ desc.suffix = <<>>
            faulty == \/ Range(desc.flags) # Flags
                      \/ ~IsPositiveInteger(desc.port)
                      \/ desc.prefix # <<>> \/ desc.suffix # <<>>
        IN  /\ shaped => resp.result = Described(desc)
            /\ faulty => ~resp.result.ok

\* C14: a descriptor with the four flags in any order, a positive integer port
\* and no other text parses to the same four fields.
C14_FlagOrderFree ==
    (resp # NoResponse /\ resp.op = "parsed") =>
        LET desc == resp.desc
        IN  (/\ Range(desc.flags) = Flags
             /\ IsPositiveInteger(desc.port)
             /\ desc.prefix = <<>> /\ desc.suffix = <<>>)
                => resp.result = Described(desc)

C16_EmptyNotError ==
    (resp.status # 0 /\ ContributingGroups = <<>>)
        => /\ resp.status = 200
           /\ resp.logs = <<>>
           /\ resp.total = 0
           /\ ~resp.has_more

\* The tenants of the answered request without a usable configuration: no
\* "database" object, enabled = false, or no "connection" entry
UnusableTenants ==
    {g \in Range(UserGroups(resp.req.user, resp.req.group_id)) :
        \/ ~groupData[g].database
        \/ ~groupData[g].enabled
        \/ ~groupData[g].has_connection}

\* C20: a tenant without a usable configuration is left out without an error,
\* and the rows of the other tenants are returned.
C20_UnusableSkipped ==
    (resp.status # 0 /\ UnusableTenants # {})
        => /\ resp.status = 200
           /\ resp.total = SumPages(ContributingGroups)
           /\ \A i \in 1..Len(resp.logs) :
                  resp.logs[i].source_group_id \notin UnusableTenants

\* ------------------------------------------------------------------------
\* Specification SpecAccess: the groups offered for log access
\* ------------------------------------------------------------------------
\* One element of the returned list; connection_ok is FALSE for an entry whose
\* description carries " (Connection Failed)"
AccessEntry(g, ok) == [id |-> g, connection_ok |-> ok]

\* groups.py lines 424-452: the loop over the groups
RECURSIVE AccessibleGroups(_, _, _)
AccessibleGroups(groups, gd, reach) ==
    IF groups = <<>> THEN <<>>
    ELSE LET g == Head(groups)
             rest == AccessibleGroups(Tail(groups), gd, reach)
         IN  IF gd[g].database /\ gd[g].enabled
             THEN <<AccessEntry(g, test_connection(gd[g].connection,
                                                   reach[gd[g].connection.host]))>>
                  \o rest
             ELSE rest

\* test_connection on {} (no "connection" entry): config["host"] raises
\* KeyError, and so does the f-string of the except branch (line 141), so the
\* exception leaves test_connection
TestConnectionRaises(groups, gd) ==
    \E i \in 1..Len(groups) :
        /\ gd[groups[i]].database
        /\ gd[groups[i]].enabled
        /\ ~gd[groups[i]].has_connection

\* groups.py, get_accessible_groups_with_logs
get_accessible_groups_with_logs(user, gd, reach) ==
    LET groups == IF user.role # "admin" THEN GroupsByMember(user.id)
                  ELSE AllGroups
    IN  IF TestConnectionRaises(groups, gd)
        THEN [api |-> "get_accessible_groups_with_logs", status |-> 500,
              user |-> user, groups |-> <<>>]
        ELSE [api |-> "get_accessible_groups_with_logs", status |-> 200,
              user |-> user, groups |-> AccessibleGroups(groups, gd, reach)]

GetAccessibleGroupsWithLogs ==
    /\ resp = NoResponse
    /\ \E user \in Principals, reach \in [GroupIds -> BOOLEAN] :
           resp' = get_accessible_groups_with_logs(user, groupData, reach)
    /\ UNCHANGED <<groupData, tenantRows, directory, registry, task, closing>>

NextAccess ==
    \/ GetAccessibleGroupsWithLogs
    \/ Return

SpecAccess == InitEdge /\ [][NextAccess]_vars

\* C17: every group get_accessible_groups_with_logs returns is in the
\* principal's resolved set, has an enabled database configuration, and
\* passed its connection test.
C17_AccessibleVerified ==
    (resp # NoResponse /\ resp.status = 200) =>
        \A i \in 1..Len(resp.groups) :
            /\ resp.groups[i].id \in AuthorizedTenants(resp.user)
            /\ groupData[resp.groups[i].id].database
            /\ groupData[resp.groups[i].id].enabled
            /\ resp.groups[i].connection_ok

\* ------------------------------------------------------------------------
\* Specification SpecLoad: requests for one tenant arriving while the queries
\* of the earlier ones are still running
\* ------------------------------------------------------------------------
Clients == 1..NumClients

\* A request with group_id = "g1" arrives and reaches its first await
BeginFiltered(t) ==
    /\ task[t].pc = "idle"
    /\ Continue(t, <<"g1">>)
    /\ UNCHANGED <<groupData, tenantRows, directory, connection_pools, poolCreated, poolConfig,
                   poolClosed, poolOut, closing, resp>>

InitLoad ==
    /\ groupData = [g \in GroupIds |-> DatabaseBlob(TRUE, ConnectionOf(g))]
    /\ tenantRows = [g \in GroupIds |-> DatasetA(g)]
    /\ DirectoryInit
    /\ RegistryEmpty
    /\ task = [t \in Clients |-> IdleTask]
    /\ closing = [group |-> NoGroup, pool |-> NoPool]
    /\ resp = NoResponse

NextLoad ==
    \E t \in Clients :
        \/ BeginFiltered(t)
        \/ CreateDone(t)
        \/ AcquireDone(t)

SpecLoad == InitLoad /\ [][NextLoad]_vars

\* The connections checked out of the first n pools of tenant g
RECURSIVE CheckedOut(_, _)
CheckedOut(g, n) == IF n = 0 THEN 0 ELSE poolOut[g][n] + CheckedOut(g, n - 1)

\* C18: at every moment the connections checked out for one tenant are at
\* most the pool maximum of 5.
C18_TenantCeiling ==
    \A g \in GroupIds : CheckedOut(g, MaxPools) <= max_size

\* ------------------------------------------------------------------------
\* Specification SpecClose: get_connection_pool, close_pool and
\* close_all_pools called one after the other
\* ------------------------------------------------------------------------
\* What a teardown call did: the registry afterwards, the pools on which
\* pool.close() was invoked, and whether the call raised
Teardown(cache, closed, invoked, raised) ==
    [cache |-> cache, closed |-> closed, invoked |-> invoked, raised |-> raised]

\* postgres_connection.py, close_pool; ok is whether pool.close() returns
close_pool(cache, closed, g, ok) ==
    IF cache[g] = NoPool THEN Teardown(cache, closed, {}, FALSE)
    ELSE IF ~ok THEN Teardown(cache, closed, {<<g, cache[g]>>}, TRUE)
    ELSE Teardown([cache EXCEPT ![g] = NoPool],
                  [closed EXCEPT ![g] = @ \cup {cache[g]}],
                  {<<g, cache[g]>>}, FALSE)

\* Faulty variant of close_all_pools: a pool whose close() raised stays cached
close_all_pools_KeepsFailed(cache, closed, fails) ==
    Teardown([g \in GroupIds |-> IF g \in fails THEN cache[g] ELSE NoPool],
             [g \in GroupIds |->
                 IF cache[g] # NoPool /\ g \notin fails
                 THEN closed[g] \cup {cache[g]} ELSE closed[g]],
             {<<g, cache[g]>> : g \in {h \in GroupIds : cache[h] # NoPool}},
             FALSE)

\* postgres_connection.py, close_all_pools; fails are the tenants whose
\* pool.close() raises (caught at lines 215-216), then the cache is cleared
close_all_pools(cache, closed, fails) ==
    Teardown([g \in GroupIds |-> NoPool],
             [g \in GroupIds |->
                 IF cache[g] # NoPool /\ g \notin fails
                 THEN closed[g] \cup {cache[g]} ELSE closed[g]],
             {<<g, cache[g]>> : g \in {h \in GroupIds : cache[h] # NoPool}},
             FALSE)

\* A call of the registry, as observed
RegistryCall(api, g, pool, invoked, raised) ==
    [api |-> api, group |-> g, pool |-> pool, invoked |-> invoked,
     raised |-> raised]

GetConnectionPool ==
    /\ resp = NoResponse
    /\ \E g \in GroupIds, health \in {"up", "down"} :
           /\ connection_pools[g] # NoPool \/ health = "down"
                  \/ poolCreated[g] < MaxPools
           /\ LET r == GetPoolNow(connection_pools, poolCreated, g,
                                  groupData[g].connection, health)
              IN  /\ connection_pools' = r.cache
                  /\ poolCreated' = r.created
                  /\ poolConfig' = OpenedWith(poolConfig, poolCreated, r.created,
                                              groupData)
                  /\ lastReturned' = IF r.pool = NoPool THEN lastReturned
                                     ELSE [lastReturned EXCEPT ![g] = r.pool]
                  /\ resp' = RegistryCall("get_connection_pool", g, r.pool, {},
                                          FALSE)
    /\ UNCHANGED <<groupData, tenantRows, directory, poolClosed, poolOut, task, closing>>

ClosePool ==
    /\ resp = NoResponse
    /\ \E g \in GroupIds, ok \in BOOLEAN :
           LET r == close_pool(connection_pools, poolClosed, g, ok)
           IN  /\ connection_pools' = r.cache
               /\ poolClosed' = r.closed
               /\ lastReturned' = [h \in GroupIds |->
                                     IF r.cache[h] = NoPool THEN NoPool
                                     ELSE lastReturned[h]]
               /\ resp' = RegistryCall("close_pool", g, connection_pools[g],
                                       r.invoked, r.raised)
    /\ UNCHANGED <<groupData, tenantRows, directory, poolCreated, poolConfig, poolOut, task, closing>>

CloseAllPools ==
    /\ resp = NoResponse
    /\ \E fails \in SUBSET GroupIds :
           LET r == close_all_pools(connection_pools, poolClosed, fails)
           IN  /\ connection_pools' = r.cache
               /\ poolClosed' = r.closed
               /\ lastReturned' = [h \in GroupIds |->
                                     IF r.cache[h] = NoPool THEN NoPool
                                     ELSE lastReturned[h]]
               /\ resp' = RegistryCall("close_all_pools", NoGroup, NoPool,
                                       r.invoked, r.raised)
    /\ UNCHANGED <<groupData, tenantRows, directory, poolCreated, poolConfig, poolOut, task, closing>>

NextClose ==
    \/ GetConnectionPool
    \/ ClosePool
    \/ CloseAllPools
    \/ Return

SpecClose == InitPool /\ [][NextClose]_vars

\* C19: close_pool without a cached pool changes nothing; a cache entry goes
\* away only by a teardown call that invoked close() on its pool; close() is
\* never invoked on a pool that is already closed; after close_all_pools the
\* cache is empty, also when a close() raised; get_connection_pool for a
\* tenant with no cached pool returns a pool that did not exist before.
C19_TeardownIdempotent ==
    [][resp' # NoResponse =>
        /\ (resp'.api = "close_pool" /\ connection_pools[resp'.group] = NoPool)
               => /\ UNCHANGED registry
                  /\ resp'.invoked = {} /\ ~resp'.raised
        /\ \A g \in GroupIds :
               (connection_pools[g] # NoPool
                /\ connection_pools'[g] # connection_pools[g])
                   => /\ connection_pools'[g] = NoPool
                      /\ <<g, connection_pools[g]>> \in resp'.invoked
        /\ \A g \in GroupIds : \A n \in PoolIds :
               <<g, n>> \in resp'.invoked
                   => /\ n \notin poolClosed[g]
                      /\ n = connection_pools[g]
        /\ resp'.api = "close_all_pools"
               => /\ \A g \in GroupIds : connection_pools'[g] = NoPool
                  /\ ~resp'.raised
        /\ (resp'.api = "get_connection_pool" /\ resp'.pool # NoPool
            /\ connection_pools[resp'.group] = NoPool)
               => /\ resp'.pool > poolCreated[resp'.group]
                  /\ resp'.pool \notin poolClosed'[resp'.group]
                  /\ connection_pools'[resp'.group] = resp'.pool]_vars

\* close_all_pools emptied the cache although one close() raised, after a
\* tenant's pool had been closed and a fresh one created for it
C19_Witness ==
    /\ resp # NoResponse
    /\ resp.api = "close_all_pools"
    /\ \E g \in GroupIds : \E n \in PoolIds :
           <<g, n>> \in resp.invoked /\ n \notin poolClosed[g]
    /\ \E h \in GroupIds : poolClosed[h] = {1, 2}
    /\ \A g \in GroupIds : connection_pools[g] = NoPool

\* ------------------------------------------------------------------------
\* Specification SpecTest: connection strings submitted to
\* configure_group_database and to the test endpoint, and test_connection
\* against servers that refuse, fail the probe, or answer
\* ------------------------------------------------------------------------
\* What the server does with a connection attempt: asyncpg.connect raises,
\* connect returns and "SELECT 1" raises, or both succeed
ServerKinds == {"refuse", "probe_fails", "ok"}

\* The outcome of one test_connection call: the value returned, whether the
\* call raised instead, and the connections it opened and closed
TestOutcome(result, raised, opened, closed) ==
    [result |-> result, raised |-> raised, opened |-> opened, closed |-> closed]

\* postgres_connection.py, test_connection, statement by statement.  has_host
\* is whether the dict has its keys ({} has none: line 124 raises KeyError and
\* the handler's own f-string at 141 raises it again).
test_connection_run(config, has_host, server) ==
    IF ~has_host THEN TestOutcome(FALSE, TRUE, 0, 0)
    ELSE IF ~decrypt_password(config.password).ok THEN TestOutcome(FALSE, FALSE, 0, 0)
    ELSE IF server = "refuse" THEN TestOutcome(FALSE, FALSE, 0, 0)
    ELSE IF server = "probe_fails" THEN TestOutcome(FALSE, FALSE, 1, 0)
    ELSE TestOutcome(TRUE, FALSE, 1, 1)

\* postgres_connection.py, test_database_connection: every exception becomes
\* False
test_database_connection(connection_string, password, server) ==
    LET cc == create_connection_config(connection_string, password)
    IN  IF ~cc.ok THEN FALSE
        ELSE LET out == test_connection_run(cc.config, TRUE, server)
             IN  ~out.raised /\ out.result

\* A submitted connection string and the answer to it
Submission(api, connection_string, status, success, message) ==
    [api |-> api, connection_string |-> connection_string, status |-> status,
     success |-> success, message |-> message]

\* groups.py, test_database_connection_endpoint
test_database_connection_endpoint(connection_string, password, server) ==
    LET success == test_database_connection(connection_string, password, server)
    IN  Submission("test_database_connection_endpoint", connection_string, 200,
                   success,
                   IF success THEN "Connection successful" ELSE "Connection failed")

SubmitConfigure ==
    /\ resp = NoResponse
    /\ \E id \in GroupIds, cs \in ConnectionStrings, pw \in Passwords,
          enabled \in BOOLEAN, reachable \in BOOLEAN :
           LET r == configure_group_database(groupData, id, cs, pw, enabled,
                                             reachable, TRUE)
           IN  /\ groupData' = r.gd
               /\ resp' = Submission("configure_group_database", cs,
                                     r.resp.status, r.resp.status = 200,
                                     IF r.resp.status = 200 THEN "saved"
                                     ELSE "detail")
    /\ UNCHANGED <<tenantRows, directory, registry, task, closing>>

SubmitTest ==
    /\ resp = NoResponse
    /\ \E cs \in ConnectionStrings, pw \in Passwords, server \in ServerKinds :
           resp' = test_database_connection_endpoint(cs, pw, server)
    /\ UNCHANGED <<groupData, tenantRows, directory, registry, task, closing>>

\* The dicts handed to test_connection: stored configurations, one encrypted
\* under another key, and {}
TestedConfigs ==
    {[config |-> ConnectionOf(g), has_host |-> TRUE] : g \in GroupIds}
    \cup {[config |-> ForeignKeyConnection("g1"), has_host |-> TRUE],
          [config |-> NoConnection, has_host |-> FALSE]}

TestConnection ==
    /\ resp = NoResponse
    /\ \E c \in TestedConfigs, server \in ServerKinds :
           resp' = [api |-> "test_connection", config |-> c, server |-> server,
                    outcome |-> test_connection_run(c.config, c.has_host, server)]
    /\ UNCHANGED <<groupData, tenantRows, directory, registry, task, closing>>

NextTest ==
    \/ SubmitConfigure
    \/ SubmitTest
    \/ TestConnection
    \/ Return

SpecTest == InitCfg /\ [][NextTest]_vars

SubmitApis == {"configure_group_database", "test_database_connection_endpoint"}

\* C21: a connection string that does not parse is answered with a 4xx
\* status by configure_group_database and by the test endpoint, never as a
\* connection attempt that failed.
C21_MalformedIsClientError ==
    (resp # NoResponse /\ resp.api \in SubmitApis
     /\ ~parse_psql_connection_string(resp.connection_string).ok)
        => /\ resp.status \in 400..499
           /\ resp.message # "Connection failed"

\* C26: test_connection never raises, closes every connection it opened, and
\* returns true exactly when connect and probe both succeeded.
C26_TestConnectionScoped ==
    (resp # NoResponse /\ resp.api = "test_connection")
        => /\ ~resp.outcome.raised
           /\ resp.outcome.closed = resp.outcome.opened
           /\ resp.outcome.result
                  <=> (/\ resp.config.has_host
                       /\ decrypt_password(resp.config.config.password).ok
                       /\ resp.server = "ok")

\* ------------------------------------------------------------------------
\* Specification SpecSql: the SQL text and the bound parameters get_logs
\* builds for one tenant
\* ------------------------------------------------------------------------
\* A query parameter of the endpoint: absent (None) or given with a value
Unset == [given |-> FALSE, value |-> ""]

Given(value) == [given |-> TRUE, value |-> value]

\* Python truthiness of an Optional[str]
Truthy(f) == f.given /\ f.value # ""

\* datetime.strptime(value, "%Y-%m-%d") succeeds
IsIsoDate(value) == value \in {"2024-01-01", "2024-02-01"}

\* The filters of a request, by name
FilterNames ==
    <<"category", "business_impact", "verified", "equipment", "user_filter",
      "title_search", "date_after", "date_before">>

\* logs.py lines 301-335: the filter is applied
Applied(name, f) == IF name = "verified" THEN f.given ELSE Truthy(f)

\* logs.py lines 302-334: the text appended for a filter, up to the "$"
ClauseText(name) ==
    CASE name = "category" -> " AND problem_category = $"
      [] name = "business_impact" -> " AND business_impact = $"
      [] name = "verified" -> " AND verified = $"
      [] name = "equipment" -> " AND equipment_group @> $"
      [] name = "user_filter" -> " AND LOWER(user_name) LIKE LOWER($"
      [] name = "title_search" -> " AND LOWER(insight_title) LIKE LOWER($"
      [] name = "date_after" -> " AND created_at::date >= $"
      [] name = "date_before" -> " AND created_at::date <= $"

\* The text after the placeholder's number
ClauseTail(name) ==
    IF name \in {"user_filter", "title_search"} THEN ")" ELSE ""

\* The value bound for a filter
ParamOf(name, f) ==
    CASE name = "equipment" -> [of |-> name, wrap |-> "json_array", value |-> f.value]
      [] name \in {"user_filter", "title_search"} ->
             [of |-> name, wrap |-> "like", value |-> f.value]
      [] name \in {"date_after", "date_before"} ->
             [of |-> name, wrap |-> "date", value |-> f.value]
      [] OTHER -> [of |-> name, wrap |-> "none", value |-> f.value]

\* A piece of the query text: text, then "$n" when n > 0, then the tail
Piece(text, n, tail) == [text |-> text, n |-> n, tail |-> tail]

\* logs.py lines 288-297
SelectFrom ==
    Piece("SELECT ... FROM logs WHERE activation_status != 'deleted'", 0, "")

RECURSIVE ApplyFilters(_, _, _)
ApplyFilters(filters, i, q) ==
    IF i > Len(FilterNames) \/ q.raised THEN q
    ELSE LET name == FilterNames[i]
             f == filters[name]
         IN  IF ~Applied(name, f) THEN ApplyFilters(filters, i + 1, q)
             ELSE IF name \in {"date_after", "date_before"} /\ ~IsIsoDate(f.value)
             THEN [q EXCEPT !.raised = TRUE]
             ELSE ApplyFilters(filters, i + 1,
                      [q EXCEPT !.query = Append(@, Piece(ClauseText(name),
                                                         Len(q.query_params) + 1,
                                                         ClauseTail(name))),
                                !.query_params = Append(@, ParamOf(name, f))])

\* Faulty variant: the sort column is taken from the request as it is
OrderBy_Unchecked(sort_by) == sort_by

\* logs.py lines 338-342
OrderBy(sort_by) == ValidatedSortBy(sort_by)

\* logs.py lines 288-353: the text and parameters sent to conn.fetch, or
\* raised when strptime rejected a date
BuildQuery(filters, sort_by, sort_desc, limit, offset) ==
    LET q0 == [query |-> <<SelectFrom>>, query_params |-> <<>>, raised |-> FALSE]
        q1 == ApplyFilters(filters, 1, q0)
        q2 == [q1 EXCEPT !.query =
                   Append(@, Piece(" ORDER BY ", 0, OrderBy(sort_by)))
                   \o (IF sort_desc THEN <<Piece(" DESC", 0, "")>> ELSE <<>>)]
        q3 == [q2 EXCEPT !.query = Append(@, Piece(" LIMIT $",
                                                   Len(q2.query_params) + 1, "")),
                         !.query_params = Append(@, [of |-> "limit", wrap |-> "none",
                                                     value |-> limit])]
        q4 == IF offset > 0
              THEN [q3 EXCEPT !.query = Append(@, Piece(" OFFSET $",
                                                        Len(q3.query_params) + 1, "")),
                              !.query_params = Append(@, [of |-> "offset",
                                                          wrap |-> "none",
                                                          value |-> offset])]
              ELSE q3
    IN  IF q1.raised THEN q1 ELSE q4

\* The filter values requests carry
FilterValues(name) ==
    CASE name = "category" -> {Unset, Given(""), Given("a"), Given("' OR '1'='1")}
      [] name = "verified" -> {Unset, Given("true"), Given("false")}
      [] name = "date_after" -> {Unset, Given("2024-01-01"), Given("01/02/2024")}
      [] name = "date_before" -> {Unset, Given("2024-02-01")}
      [] name = "equipment" -> {Unset, Given("pump\"]")}
      [] OTHER -> {Unset, Given("x")}

Range8 == {FilterNames[i] : i \in 1..Len(FilterNames)}

FilterSets ==
    [category : FilterValues("category"),
     business_impact : FilterValues("business_impact"),
     verified : FilterValues("verified"),
     equipment : FilterValues("equipment"),
     user_filter : FilterValues("user_filter"),
     title_search : FilterValues("title_search"),
     date_after : FilterValues("date_after"),
     date_before : FilterValues("date_before")]

SortBys == {"created_at", "user_name", "id; DROP TABLE logs"}

\* One query built for a tenant, with the request it was built from
BuiltQuery(filters, sort_by, sort_desc, offset, q) ==
    [api |-> "build_query", filters |-> filters, sort_by |-> sort_by,
     sort_desc |-> sort_desc, offset |-> offset, q |-> q]

SendQuery ==
    /\ resp = NoResponse
    /\ \E filters \in FilterSets, sort_by \in SortBys, sort_desc \in BOOLEAN,
          offset \in 0..MaxOffset :
           resp' = BuiltQuery(filters, sort_by, sort_desc, offset,
                              BuildQuery(filters, sort_by, sort_desc, MaxLimit,
                                         offset))
    /\ UNCHANGED <<groupData, tenantRows, directory, registry, task, closing>>

NextSql ==
    \/ SendQuery
    \/ Return

SpecSql == InitCfg /\ [][NextSql]_vars

\* The placeholder numbers of a query text, in order of appearance
Placeholders(query) ==
    SelectSeq([i \in 1..Len(query) |-> query[i].n], LAMBDA n : n > 0)

\* The same filters are given (not None)
SameGiven(f1, f2) == \A n \in Range8 : f1[n].given = f2[n].given

\* The same filters are applied
SameApplied(f1, f2) == \A n \in Range8 : Applied(n, f1[n]) = Applied(n, f2[n])

\* Numbering and allow-list of one built query
WellNumbered(q) ==
    /\ Placeholders(q.query) = [i \in 1..Len(q.query_params) |-> i]
    /\ \A i \in 1..Len(q.query) :
           q.query[i].text = " ORDER BY " => q.query[i].tail \in valid_sort_fields

\* C22 as stated: requests that give the same filters with other values get
\* the same SQL text
C22_TextIgnoresValues ==
    (resp # NoResponse /\ resp.api = "build_query") =>
        /\ \A f2 \in FilterSets :
               SameGiven(resp.filters, f2)
                   => BuildQuery(f2, resp.sort_by, resp.sort_desc, MaxLimit,
                                 resp.offset).query = resp.q.query
        /\ ~resp.q.raised => WellNumbered(resp.q)

\* C22, amended: two requests that apply the same filters (an empty string
\* applies none) and whose dates parse get the same SQL text; the placeholders
\* are $1..$k in the order of the k parameters; ORDER BY names an allow-listed
\* column.
C22_TextIgnoresAppliedValues ==
    (resp # NoResponse /\ resp.api = "build_query" /\ ~resp.q.raised) =>
        /\ \A f2 \in FilterSets :
               LET q2 == BuildQuery(f2, resp.sort_by, resp.sort_desc, MaxLimit,
                                    resp.offset)
               IN  (SameApplied(resp.filters, f2) /\ ~q2.raised)
                       => q2.query = resp.q.query
        /\ WellNumbered(resp.q)

\* All eight filters applied, with an injection attempt as a value and a
\* sort_by outside the allow-list, paginated with an offset
C22_Witness ==
    /\ resp # NoResponse
    /\ resp.api = "build_query"
    /\ ~resp.q.raised
    /\ \A n \in Range8 : Applied(n, resp.filters[n])
    /\ resp.filters["category"].value = "' OR '1'='1"
    /\ resp.sort_by \notin valid_sort_fields
    /\ Len(resp.q.query_params) = 10

\* ------------------------------------------------------------------------
\* Specification SpecMgr: the manager router, called by managers
\* ------------------------------------------------------------------------
\* utils/managers.py, is_admin
is_admin(user) == user.role = "admin"

\* utils/managers.py, is_manager
is_manager(user) == user.role = "manager"

\* utils/managers.py, can_manage_group
can_manage_group(user, group_id) ==
    \/ is_admin(user)
    \/ /\ is_manager(user)
       /\ \E i \in 1..Len(user.managed_groups) : user.managed_groups[i] = group_id

\* utils/managers.py, can_manage_user
can_manage_user(manager, target_user_id, members) ==
    \/ is_admin(manager)
    \/ /\ is_manager(manager)
       /\ \E i \in 1..Len(manager.managed_groups) :
              <<target_user_id, manager.managed_groups[i]>> \in members

\* The result of a handler: the status and the tables afterwards
MgrResult(status, us, members) == [status |-> status, users |-> us, members |-> members]

\* EditUserRequest: each field None ("") or a value
EditRequests ==
    {[name |-> "n2", email |-> "", password |-> ""],
     [name |-> "", email |-> "new@x", password |-> ""],
     [name |-> "", email |-> "a1@x", password |-> ""],
     [name |-> "", email |-> "", password |-> "h2"]}

\* Users.get_user_by_id(user_id) is not None
UserExists(us, user_id) == user_id \in UserIds /\ us[user_id] # NoUser

\* Users.get_user_by_email(email) is another user
EmailTaken(us, email, user_id) ==
    \E u \in UserIds : u # user_id /\ us[u] # NoUser /\ us[u].email = email

\* managers.py, edit_user
edit_user(us, members, manager, user_id, request) ==
    IF ~UserExists(us, user_id) THEN MgrResult(404, us, members)
    ELSE IF us[user_id].role = "admin" /\ ~is_admin(manager)
    THEN MgrResult(403, us, members)
    ELSE IF ~is_admin(manager) /\ ~can_manage_user(manager, user_id, members)
    THEN MgrResult(403, us, members)
    ELSE IF request.email # "" /\ EmailTaken(us, request.email, user_id)
    THEN MgrResult(400, us, members)
    ELSE MgrResult(200,
             [us EXCEPT ![user_id] =
                 [@ EXCEPT !.name = IF request.name # "" THEN request.name ELSE @,
                           !.email = IF request.email # "" THEN request.email ELSE @,
                           !.password = IF request.password # ""
                                        THEN request.password ELSE @]],
             members)

\* Faulty variant of delete_user: the target's role is not looked at
delete_user_AnyRole(us, members, manager, user_id) ==
    IF ~UserExists(us, user_id) THEN MgrResult(404, us, members)
    ELSE IF ~is_admin(manager) /\ ~can_manage_user(manager, user_id, members)
    THEN MgrResult(403, us, members)
    ELSE MgrResult(200, [us EXCEPT ![user_id] = NoUser], members)

\* managers.py, delete_user
delete_user(us, members, manager, user_id) ==
    IF ~UserExists(us, user_id) THEN MgrResult(404, us, members)
    ELSE IF us[user_id].role = "admin" /\ ~is_admin(manager)
    THEN MgrResult(403, us, members)
    ELSE IF ~is_admin(manager) /\ ~can_manage_user(manager, user_id, members)
    THEN MgrResult(403, us, members)
    ELSE MgrResult(200, [us EXCEPT ![user_id] = NoUser], members)

\* managers.py, remove_user_from_group
remove_user_from_group(us, members, manager, group_id, user_id) ==
    IF ~can_manage_group(manager, group_id) THEN MgrResult(403, us, members)
    ELSE IF ~UserExists(us, user_id) THEN MgrResult(404, us, members)
    ELSE IF us[user_id].role = "admin" /\ ~is_admin(manager)
    THEN MgrResult(403, us, members)
    ELSE IF <<user_id, group_id>> \notin members THEN MgrResult(400, us, members)
    ELSE MgrResult(200, us, members \ {<<user_id, group_id>>})

\* managers.py, add_user_to_group
add_user_to_group(us, members, manager, group_id, user_id) ==
    IF ~can_manage_group(manager, group_id) THEN MgrResult(403, us, members)
    ELSE IF ~UserExists(us, user_id) THEN MgrResult(404, us, members)
    ELSE IF <<user_id, group_id>> \in members THEN MgrResult(400, us, members)
    ELSE MgrResult(200, us, members \cup {<<user_id, group_id>>})

\* managers.py, approve_user
approve_user(us, members, manager, user_id) ==
    IF ~UserExists(us, user_id) THEN MgrResult(404, us, members)
    ELSE IF us[user_id].role # "pending" THEN MgrResult(400, us, members)
    ELSE IF /\ ~is_admin(manager)
            /\ \/ us[user_id].pending_group_id = NoGroup
               \/ ~can_manage_group(manager, us[user_id].pending_group_id)
    THEN MgrResult(403, us, members)
    ELSE IF us[user_id].pending_group_id = NoGroup
    THEN MgrResult(200, [us EXCEPT ![user_id].role = "user"], members)
    ELSE MgrResult(200,
             [us EXCEPT ![user_id].role = "user",
                        ![user_id].pending_group_id = NoGroup],
             members \cup {<<user_id, us[user_id].pending_group_id>>})

\* managers.py, reject_user
reject_user(us, members, manager, user_id) ==
    IF ~UserExists(us, user_id) THEN MgrResult(404, us, members)
    ELSE IF us[user_id].role # "pending" THEN MgrResult(400, us, members)
    ELSE IF /\ ~is_admin(manager)
            /\ \/ us[user_id].pending_group_id = NoGroup
               \/ ~can_manage_group(manager, us[user_id].pending_group_id)
    THEN MgrResult(403, us, members)
    ELSE MgrResult(200, [us EXCEPT ![user_id] = NoUser], members)

\* The managers that call the router (get_admin_or_manager_user resolved them)
Managers == {p \in Principals : p.id \in {"m0", "m1"}}

\* The caller's row is still there
SignedIn(manager) == manager.id \in UserIds => users[manager.id].role = manager.role

\* The user ids requests name: the rows of the table and an unknown id
RequestUsers == UserIds \cup {"zz"}

RequestGroups == {"g1", "g2"}

\* A call of the manager router and its status
MgrCall(api, manager, user_id, group_id, status) ==
    [api |-> api, principal |-> manager, target |-> user_id, group |-> group_id,
     status |-> status]

EditUser ==
    /\ resp = NoResponse
    /\ \E manager \in Managers, user_id \in RequestUsers, request \in EditRequests :
           /\ SignedIn(manager)
           /\ LET r == edit_user(users, group_members, manager, user_id, request)
              IN  /\ users' = r.users
                  /\ group_members' = r.members
                  /\ resp' = MgrCall("edit_user", manager, user_id, NoGroup, r.status)
    /\ UNCHANGED <<groupData, tenantRows, invitations, registry, task, closing>>

DeleteUser ==
    /\ resp = NoResponse
    /\ \E manager \in Managers, user_id \in RequestUsers :
           /\ SignedIn(manager)
           /\ LET r == delete_user(users, group_members, manager, user_id)
              IN  /\ users' = r.users
                  /\ group_members' = r.members
                  /\ resp' = MgrCall("delete_user", manager, user_id, NoGroup, r.status)
    /\ UNCHANGED <<groupData, tenantRows, invitations, registry, task, closing>>

RemoveUserFromGroup ==
    /\ resp = NoResponse
    /\ \E manager \in Managers, user_id \in RequestUsers, group_id \in RequestGroups :
           /\ SignedIn(manager)
           /\ LET r == remove_user_from_group(users, group_members, manager, group_id, user_id)
              IN  /\ users' = r.users
                  /\ group_members' = r.members
                  /\ resp' = MgrCall("remove_user_from_group", manager, user_id, group_id, r.status)
    /\ UNCHANGED <<groupData, tenantRows, invitations, registry, task, closing>>

AddUserToGroup ==
    /\ resp = NoResponse
    /\ \E manager \in Managers, user_id \in RequestUsers, group_id \in RequestGroups :
           /\ SignedIn(manager)
           /\ LET r == add_user_to_group(users, group_members, manager, group_id, user_id)
              IN  /\ users' = r.users
                  /\ group_members' = r.members
                  /\ resp' = MgrCall("add_user_to_group", manager, user_id, group_id, r.status)
    /\ UNCHANGED <<groupData, tenantRows, invitations, registry, task, closing>>

ApproveUser ==
    /\ resp = NoResponse
    /\ \E manager \in Managers, user_id \in RequestUsers :
           /\ SignedIn(manager)
           /\ LET r == approve_user(users, group_members, manager, user_id)
              IN  /\ users' = r.users
                  /\ group_members' = r.members
                  /\ resp' = MgrCall("approve_user", manager, user_id, NoGroup, r.status)
    /\ UNCHANGED <<groupData, tenantRows, invitations, registry, task, closing>>

RejectUser ==
    /\ resp = NoResponse
    /\ \E manager \in Managers, user_id \in RequestUsers :
           /\ SignedIn(manager)
           /\ LET r == reject_user(users, group_members, manager, user_id)
              IN  /\ users' = r.users
                  /\ group_members' = r.members
                  /\ resp' = MgrCall("reject_user", manager, user_id, NoGroup, r.status)
    /\ UNCHANGED <<groupData, tenantRows, invitations, registry, task, closing>>

NextMgr ==
    \/ EditUser
    \/ DeleteUser
    \/ RemoveUserFromGroup
    \/ AddUserToGroup
    \/ ApproveUser
    \/ RejectUser
    \/ Return

SpecMgr == InitCfg /\ [][NextMgr]_vars

GuardedApis == {"edit_user", "delete_user", "remove_user_from_group"}

\* C23: a call by a manager leaves every admin's row and every admin's group
\* memberships as they were, and edit_user, delete_user and
\* remove_user_from_group aimed at an admin are answered 403.
C23_AdminsUntouched ==
    [][(resp' # NoResponse /\ resp'.principal.role = "manager") =>
          \A u \in UserIds :
              users[u].role = "admin" =>
                  /\ users'[u] = users[u]
                  /\ \A g \in GroupIds :
                         <<u, g>> \in group_members => <<u, g>> \in group_members'
                  /\ (resp'.api \in GuardedApis /\ resp'.target = u)
                         => resp'.status = 403]_vars

\* A manager asked to delete an admin who is a member of the group the
\* manager manages, and was refused
C23_Witness ==
    /\ resp # NoResponse
    /\ resp.api = "delete_user"
    /\ resp.principal.id = "m1"
    /\ resp.target = "a1"
    /\ resp.status = 403
    /\ <<"a1", "g1">> \in group_members
    /\ users["a1"] = SeedUsers["a1"]

\* ------------------------------------------------------------------------
\* Specification SpecEquip: get_equipment_groups over tenant databases
\* ------------------------------------------------------------------------
\* The active rows of a tenant's equipment_groups table, ordered by
\* conventional_name
EquipmentRows(host) ==
    CASE host = "g1" -> <<[id |-> 1, conventional_name |-> "pump", origin |-> host],
                          [id |-> 2, conventional_name |-> "valve", origin |-> host]>>
      [] host = "g2" -> <<[id |-> 1, conventional_name |-> "pump", origin |-> host]>>
      [] OTHER -> <<[id |-> 1, conventional_name |-> "fan", origin |-> host]>>

\* logs.py lines 546-555: has_access
HasEquipmentAccess(user, group_id) ==
    IF user.role = "admin" THEN TRUE
    ELSE IF /\ user.role = "manager"
            /\ \E i \in 1..Len(user.managed_groups) : user.managed_groups[i] = group_id
    THEN TRUE
    ELSE user.id \in GroupMembers(group_id)

\* lines 610-618: rows are kept by conventional_name, the first one wins
RECURSIVE KeepFirst(_, _, _)
KeepFirst(all_equipment, rows, g) ==
    IF rows = <<>> THEN all_equipment
    ELSE KeepFirst(
             IF \E i \in 1..Len(all_equipment) :
                    all_equipment[i].conventional_name = Head(rows).conventional_name
             THEN all_equipment
             ELSE Append(all_equipment,
                         [conventional_name |-> Head(rows).conventional_name,
                          origin |-> Head(rows).origin, source_group_id |-> g]),
             Tail(rows), g)

\* lines 583-622, one iteration of the loop over user_groups
FetchEquipment(acc, g, health, gd) ==
    LET cfg == get_group_database_connection(gd, g)
    IN
    IF acc.raised THEN acc
    ELSE IF cfg.kind = "KeyError" THEN [acc EXCEPT !.raised = TRUE]
    ELSE IF cfg.kind = "none" THEN acc
    ELSE
    LET host == cfg.connection.host
        got  == GetPoolNow(acc.cache, acc.created, g, cfg.connection, health[host])
    IN
    IF got.pool = NoPool \/ health[host] = "down"
    THEN [acc EXCEPT !.queried = @ \cup {g}]
    ELSE IF health[host] = "qfail"
    THEN [acc EXCEPT !.queried = @ \cup {g},
                     !.cache = got.cache, !.created = got.created]
    ELSE [acc EXCEPT !.queried = @ \cup {g},
                     !.all_equipment = KeepFirst(@, EquipmentRows(host), g),
                     !.cache = got.cache, !.created = got.created]

RECURSIVE FetchAllEquipment(_, _, _, _)
FetchAllEquipment(acc, groups, health, gd) ==
    IF groups = <<>> THEN acc
    ELSE FetchAllEquipment(FetchEquipment(acc, Head(groups), health, gd),
                           Tail(groups), health, gd)

\* The answer of get_equipment_groups: raised is the HTTPException raised
\* inside the try block (0 when none), status the one the client receives
EquipmentResponse(user, group_id, status, raised, acc) ==
    [api |-> "get_equipment_groups", user |-> user, group_id |-> group_id,
     status |-> status, raised |-> raised, items |-> acc.all_equipment,
     queried |-> acc.queried, cache |-> acc.cache, created |-> acc.created]

\* lines 626-631: `except Exception` catches whatever the try block raised,
\* an HTTPException included, and raises a 500 in its place
WrapException(raised) == 500

\* logs.py, get_equipment_groups
get_equipment_groups(user, group_id, health, gd, cache, created) ==
    LET acc0 == [all_equipment |-> <<>>, queried |-> {}, raised |-> FALSE,
                 cache |-> cache, created |-> created]
        fetch(groups) ==
            LET acc == FetchAllEquipment(acc0, groups, health, gd)
            IN  IF acc.raised
                THEN EquipmentResponse(user, group_id, WrapException(500), 500,
                         [acc EXCEPT !.all_equipment = <<>>])
                ELSE EquipmentResponse(user, group_id, 200, 0, acc)
    IN  IF group_id # NoFilter
        THEN IF ~GroupExists(group_id)
             THEN EquipmentResponse(user, group_id, WrapException(404), 404, acc0)
             ELSE IF ~HasEquipmentAccess(user, group_id)
             THEN EquipmentResponse(user, group_id, WrapException(403), 403, acc0)
             ELSE fetch(<<group_id>>)
        ELSE fetch(RoleGroups(user))

GetEquipmentGroups ==
    /\ resp = NoResponse
    /\ \E user \in Principals, group_id \in GroupIds \cup {NoFilter, DeletedGroup},
          health \in [GroupIds -> HealthKinds] :
           LET r == get_equipment_groups(user, group_id, health, groupData,
                                         connection_pools, poolCreated)
           IN  /\ resp' = r
               /\ connection_pools' = r.cache
               /\ poolCreated' = r.created
               /\ poolConfig' = OpenedWith(poolConfig, poolCreated, r.created,
                                           groupData)
               /\ lastReturned' = r.cache
    /\ UNCHANGED <<groupData, tenantRows, directory, poolClosed, poolOut, task,
                   closing>>

NextEquip ==
    \/ GetEquipmentGroups
    \/ Return

SpecEquip == InitEdge /\ [][NextEquip]_vars

\* C24: with a group_id, an unknown group is answered 404 and a group the
\* principal has no access to 403, and no tenant database is queried.
C24_FilterErrors ==
    (resp # NoResponse /\ resp.api = "get_equipment_groups"
     /\ resp.group_id # NoFilter) =>
        /\ ~GroupExists(resp.group_id)
               => (resp.status = 404 /\ resp.queried = {})
        /\ (GroupExists(resp.group_id)
            /\ ~HasEquipmentAccess(resp.user, resp.group_id))
               => (resp.status = 403 /\ resp.queried = {})

\* C29: data from g is returned for group_id = g only when g is among the
\* groups the principal is given without a group_id.
C29_FilterNarrows ==
    (resp # NoResponse /\ resp.api = "get_equipment_groups"
     /\ resp.group_id # NoFilter /\ resp.status = 200)
        => \A i \in 1..Len(resp.items) :
               resp.items[i].source_group_id \in Range(RoleGroups(resp.user))

\* ------------------------------------------------------------------------
\* Specification SpecInv: the Invitation table and the calls that change it
\* ------------------------------------------------------------------------
\* Python truthiness of an Optional[int]: None and 0 are false
IntTruthy(x) == x.given /\ x.value # 0

\* The token of the invitation created under an id (tokens are unique)
TokenOfId(id) == IF id = "i1" THEN "t1" ELSE "t2"

\* The group every invitation here is for
InvitationGroup == "g1"

\* The values of max_uses and expires_at callers pass, and the clock
MaxUsesValues == {NoInt, SomeInt(0), SomeInt(1), SomeInt(2)}

ExpiresAtValues == {NoInt, SomeInt(0), SomeInt(5)}

Clock == {3, 7}

Statuses == {"active", "disabled", "expired"}

\* invitations.py, insert_new_invitation: a new row, active, with no uses
insert_new_invitation(inv, id, max_uses, expires_at) ==
    [inv EXCEPT ![id] = InvitationRow(TokenOfId(id), max_uses, 0, expires_at,
                                      "active")]

\* invitations.py, increment_invitation_uses
increment_invitation_uses(inv, id) ==
    IF inv[id] = NoInvitation THEN inv
    ELSE LET n == inv[id].current_uses + 1
         IN  [inv EXCEPT ![id].current_uses = n,
                         ![id].status = IF /\ IntTruthy(inv[id].max_uses)
                                           /\ n >= inv[id].max_uses.value
                                        THEN "expired" ELSE @]

\* invitations.py, update_invitation_status
update_invitation_status(inv, id, status) ==
    IF inv[id] = NoInvitation THEN inv
    ELSE [inv EXCEPT ![id].status = status]

\* invitations.py, delete_invitation_by_id
delete_invitation_by_id(inv, id) == [inv EXCEPT ![id] = NoInvitation]

\* invitations.py, get_invitation_by_token
get_invitation_by_token(inv, token) ==
    IF \E i \in InvitationIds : inv[i] # NoInvitation /\ inv[i].token = token
    THEN inv[CHOOSE i \in InvitationIds :
                 inv[i] # NoInvitation /\ inv[i].token = token]
    ELSE NoInvitation

\* invitations.py, is_invitation_valid, at clock value now
is_invitation_valid(inv, token, now) ==
    LET invitation == get_invitation_by_token(inv, token)
    IN  IF invitation = NoInvitation THEN FALSE
        ELSE IF invitation.status # "active" THEN FALSE
        ELSE IF IntTruthy(invitation.expires_at) /\ invitation.expires_at.value < now
        THEN FALSE
        ELSE IF /\ IntTruthy(invitation.max_uses)
                /\ invitation.current_uses >= invitation.max_uses.value
        THEN FALSE
        ELSE TRUE

\* routers/invitations.py, revoke_invitation: the status and the table
revoke_invitation(inv, user, id) ==
    IF inv[id] = NoInvitation THEN [status |-> 404, invitations |-> inv]
    ELSE IF ~can_manage_group(user, InvitationGroup)
    THEN [status |-> 403, invitations |-> inv]
    ELSE [status |-> 200,
          invitations |-> update_invitation_status(inv, id, "disabled")]

\* A call on the table: what was called, on which row, and what it returned
InvCall(api, id, token, now, valid, status) ==
    [api |-> api, id |-> id, token |-> token, now |-> now, valid |-> valid,
     status |-> status]

InsertNewInvitation ==
    /\ resp = NoResponse
    /\ \E id \in InvitationIds, max_uses \in MaxUsesValues,
          expires_at \in ExpiresAtValues :
           /\ invitations[id] = NoInvitation
           /\ invitations' = insert_new_invitation(invitations, id, max_uses,
                                                   expires_at)
           /\ resp' = InvCall("insert_new_invitation", id, TokenOfId(id), 0,
                              FALSE, 200)
    /\ UNCHANGED <<groupData, tenantRows, users, group_members, registry, task,
                   closing>>

IncrementInvitationUses ==
    /\ resp = NoResponse
    /\ \E id \in InvitationIds :
           /\ invitations[id].current_uses < MaxUses
           /\ invitations' = increment_invitation_uses(invitations, id)
           /\ resp' = InvCall("increment_invitation_uses", id, "none", 0, FALSE,
                              200)
    /\ UNCHANGED <<groupData, tenantRows, users, group_members, registry, task,
                   closing>>

UpdateInvitationStatus ==
    /\ resp = NoResponse
    /\ \E id \in InvitationIds, status \in Statuses :
           /\ invitations' = update_invitation_status(invitations, id, status)
           /\ resp' = InvCall("update_invitation_status", id, "none", 0, FALSE,
                              200)
    /\ UNCHANGED <<groupData, tenantRows, users, group_members, registry, task,
                   closing>>

RevokeInvitation ==
    /\ resp = NoResponse
    /\ \E id \in InvitationIds, user \in Managers :
           LET r == revoke_invitation(invitations, user, id)
           IN  /\ invitations' = r.invitations
               /\ resp' = InvCall("revoke_invitation", id, "none", 0, FALSE,
                                  r.status)
    /\ UNCHANGED <<groupData, tenantRows, users, group_members, registry, task,
                   closing>>

DeleteInvitationById ==
    /\ resp = NoResponse
    /\ \E id \in InvitationIds :
           /\ invitations' = delete_invitation_by_id(invitations, id)
           /\ resp' = InvCall("delete_invitation_by_id", id, "none", 0, FALSE,
                              200)
    /\ UNCHANGED <<groupData, tenantRows, users, group_members, registry, task,
                   closing>>

IsInvitationValid ==
    /\ resp = NoResponse
    /\ \E token \in {"t1", "t2", "t9"}, now \in Clock :
           resp' = InvCall("is_invitation_valid", "none", token, now,
                           is_invitation_valid(invitations, token, now), 200)
    /\ UNCHANGED <<groupData, tenantRows, directory, registry, task, closing>>

NextInv ==
    \/ InsertNewInvitation
    \/ IncrementInvitationUses
    \/ UpdateInvitationStatus
    \/ RevokeInvitation
    \/ DeleteInvitationById
    \/ IsInvitationValid
    \/ Return

SpecInv == InitCfg /\ [][NextInv]_vars

\* C25: is_invitation_valid is true exactly when a row with the token exists,
\* is active, has expires_at unset or not in the past, and, when max_uses is
\* set, has current_uses < max_uses.
C25_ValidExactly ==
    (resp # NoResponse /\ resp.api = "is_invitation_valid") =>
        (resp.valid <=>
            \E i \in InvitationIds :
                /\ invitations[i] # NoInvitation
                /\ invitations[i].token = resp.token
                /\ invitations[i].status = "active"
                /\ (~invitations[i].expires_at.given
                    \/ invitations[i].expires_at.value >= resp.now)
                /\ (invitations[i].max_uses.given
                    => invitations[i].current_uses
                           < invitations[i].max_uses.value))

\* C30: a row whose max_uses is set never has current_uses above it, and a
\* row whose current_uses has reached max_uses is not valid at any time.
C30_UsesCapped ==
    \A i \in InvitationIds :
        (invitations[i] # NoInvitation /\ invitations[i].max_uses.given) =>
            /\ invitations[i].current_uses <= invitations[i].max_uses.value
            /\ invitations[i].current_uses >= invitations[i].max_uses.value
                   => \A now \in Clock :
                          ~is_invitation_valid(invitations, invitations[i].token,
                                               now)

\* ------------------------------------------------------------------------
\* Specification SpecReconf: a tenant is configured again while its pool is
\* cached
\* ------------------------------------------------------------------------
\* The tenant whose configuration is changed
ReconfiguredTenants == {"g1"}

ConfigureTenant ==
    /\ resp = NoResponse
    /\ \E id \in ReconfiguredTenants, cs \in ConnectionStrings, pw \in Passwords,
          enabled \in BOOLEAN, reachable \in BOOLEAN :
           LET r == configure_group_database(groupData, id, cs, pw, enabled,
                                             reachable, TRUE)
           IN  /\ groupData' = r.gd
               /\ resp' = RegistryCall("configure_group_database", id, NoPool, {},
                                       r.resp.status # 200)
    /\ UNCHANGED <<tenantRows, directory, registry, task, closing>>

\* get_logs lines 275-285: the stored configuration is read and handed to
\* get_connection, which takes the tenant's pool from get_connection_pool
GetConnection ==
    /\ resp = NoResponse
    /\ \E g \in ReconfiguredTenants, health \in {"up", "down"} :
           LET cfg == get_group_database_connection(groupData, g)
           IN  /\ cfg.kind \notin {"none", "KeyError"}
               /\ connection_pools[g] # NoPool \/ health = "down"
                      \/ poolCreated[g] < MaxPools
               /\ LET r == GetPoolNow(connection_pools, poolCreated, g,
                                      cfg.connection, health)
                  IN  /\ connection_pools' = r.cache
                      /\ poolCreated' = r.created
                      /\ poolConfig' = OpenedWith(poolConfig, poolCreated,
                                                  r.created, groupData)
                      /\ lastReturned' = IF r.pool = NoPool THEN lastReturned
                                         ELSE [lastReturned EXCEPT ![g] = r.pool]
                      /\ resp' = RegistryCall("get_connection", g, r.pool, {},
                                              r.pool = NoPool)
    /\ UNCHANGED <<groupData, tenantRows, directory, poolClosed, poolOut, task,
                   closing>>

NextReconf ==
    \/ ConfigureTenant
    \/ GetConnection
    \/ Return

SpecReconf == InitCfg /\ [][NextReconf]_vars

\* C27: the pool get_connection uses was opened with the configuration that
\* is stored for the tenant at that time.
C27_PoolMatchesConfig ==
    (resp # NoResponse /\ resp.api = "get_connection" /\ resp.pool # NoPool)
        => poolConfig[resp.group][resp.pool] = groupData[resp.group].connection

\* ------------------------------------------------------------------------
\* The cross-tenant re-sort (specification Spec)
\* ------------------------------------------------------------------------
\* C28: a request sorted by an allow-listed field whose tenants all answered
\* gets a 200 envelope with the fetched rows.
C28_ResortCompletes ==
    (resp.status # 0 /\ resp.failed = {}
     /\ resp.req.sort_by \in valid_sort_fields)
        => /\ resp.status = 200
           /\ resp.total = SumPages(ContributingGroups)

====
